---- MODULE Spec2Model ----
(***************************************************************************)
(* Model of the retrieval-and-orchestration core of commerce-assistance:   *)
(*   - services/vector_store.py : embedding cache, build_index, load_index,*)
(*     query, query_with_scores over the two persisted snapshot files;     *)
(*   - services/tool.py, services/agent.py, services/context.py : the     *)
(*     two-phase turn pipeline (intent -> tools -> synthesis).             *)
(* Scores are integers on a scale where 10 stands for similarity 1.0.      *)
(***************************************************************************)
EXTENDS Integers, Sequences, FiniteSets, TLC

\* ------------------------------------------------------------------ bounds
MaxProd == 3
MaxBuilds == 2
MaxTools == 2
MaxHist == 5
MaxFetch == 2

\* ------------------------------------------------------- program constants
max_history_turns == 4
keep_recent_turns == 2
TopKTool == 2
TopKImage == 5
TopKEndpoint == 5
MinSimText == 5
MinSimImage == 4
SummaryWindow == 20

\* ------------------------------------------------------------- data model
ProdIds == 1..MaxProd
MaxKey == (MaxProd \div 2) + 1
Keys == 0..MaxKey
NoVec == [dir |-> 0 - 1, mag |-> 0]
NoId == 0 - 1

\* A text is its normalized form b (the cache key) and a spelling variant v
\* (case / surrounding blanks): variant 0 is the normalized spelling itself.
Key(text) == text.b

\* description + " " + name of product p; products 2k and 2k+1 share a text.
ProdText(p) == [b |-> p \div 2, v |-> 0]

\* Product.price is a nullable column: NoPrice is None, and every third
\* product has no price
NoPrice == 0 - 1
Price(p) == IF p % 3 = 0 THEN NoPrice ELSE 30 * p

\* budget = None of recommend_products (0 is a budget like any other)
NoBudget == 0 - 1

\* The embedding source: a non-unit vector whose direction depends on the
\* raw spelling, not only on the normalized key.
ProviderVec(text) == [dir |-> (text.b + text.v) % (MaxKey + 1), mag |-> 2]

_normalize(v) == IF v.mag > 0 THEN [dir |-> v.dir, mag |-> 1] ELSE v

Abs(x) == IF x < 0 THEN 0 - x ELSE x

\* inner product of two vectors (cosine of the directions times the norms)
InnerProduct(u, v) == u.mag * v.mag * (10 - 3 * Abs(u.dir - v.dir))

EmptyCache == [k \in Keys |-> NoVec]

\* ---------------------------------------------------------- _get_embedding
\* c: the process-wide cache, key: OPENAI_API_KEY configured, bad: the texts
\* the embedding source fails on during this call.
\* _get_embedding with a local vector in place of the error of lines 35-36
_get_embedding_local_fallback(text, c, key, bad) ==
    IF c[Key(text)] # NoVec
      THEN [raised |-> "none", vec |-> c[Key(text)], cache |-> c, calls |-> 0]
    ELSE IF ~key
      THEN [raised |-> "none", vec |-> ProviderVec(text), cache |-> c, calls |-> 0]
    ELSE IF text \in bad
      THEN [raised |-> "provider", vec |-> NoVec, cache |-> c, calls |-> 1]
    ELSE [raised |-> "none", vec |-> ProviderVec(text),
          cache |-> [c EXCEPT ![Key(text)] = ProviderVec(text)], calls |-> 1]

\* _get_embedding without the store of line 45
_get_embedding_no_store(text, c, key, bad) ==
    IF c[Key(text)] # NoVec
      THEN [raised |-> "none", vec |-> c[Key(text)], cache |-> c, calls |-> 0]
    ELSE IF ~key
      THEN [raised |-> "config", vec |-> NoVec, cache |-> c, calls |-> 0]
    ELSE IF text \in bad
      THEN [raised |-> "provider", vec |-> NoVec, cache |-> c, calls |-> 1]
    ELSE [raised |-> "none", vec |-> ProviderVec(text), cache |-> c, calls |-> 1]

_get_embedding(text, c, key, bad) ==
    IF c[Key(text)] # NoVec
      THEN [raised |-> "none", vec |-> c[Key(text)], cache |-> c, calls |-> 0]
    ELSE IF ~key
      THEN [raised |-> "config", vec |-> NoVec, cache |-> c, calls |-> 0]
    ELSE IF text \in bad
      THEN [raised |-> "provider", vec |-> NoVec, cache |-> c, calls |-> 1]
    ELSE [raised |-> "none", vec |-> ProviderVec(text),
          cache |-> [c EXCEPT ![Key(text)] = ProviderVec(text)], calls |-> 1]

\* ------------------------------------------------------------ the two files
AbsentFile == [st |-> "absent", gen |-> 0, vecs |-> <<>>, ids |-> <<>>]
CorruptFile == [st |-> "corrupt", gen |-> 0, vecs |-> <<>>, ids |-> <<>>]
IndexContent(g, vecs) == [st |-> "ok", gen |-> g, vecs |-> vecs, ids |-> <<>>]
MetaContent(g, ids) == [st |-> "ok", gen |-> g, vecs |-> <<>>, ids |-> ids]

\* db.query(Product).all(): the stored products in primary-key order
RECURSIVE ListAll(_)
ListAll(S) ==
    IF S = {} THEN <<>>
    ELSE LET m == CHOOSE x \in S : \A y \in S : x <= y
         IN <<m>> \o ListAll(S \ {m})

\* ------------------------------------------------------------- build_index
\* The loop of build_index over the products, in store order: an exception of
\* _get_embedding leaves the loop (and build_index) at once.
RECURSIVE BuildLoop(_, _, _, _, _, _)
BuildLoop(ps, c, key, bad, vecs, ids) ==
    IF ps = <<>>
      THEN [raised |-> "none", vecs |-> vecs, ids |-> ids, cache |-> c]
    ELSE LET p == Head(ps)
             e == _get_embedding(ProdText(p), c, key, bad)
         IN IF e.raised # "none"
              THEN [raised |-> e.raised, vecs |-> vecs, ids |-> ids, cache |-> e.cache]
            ELSE IF e.vec = NoVec
              THEN BuildLoop(Tail(ps), e.cache, key, bad, vecs, ids)
            ELSE BuildLoop(Tail(ps), e.cache, key, bad,
                           Append(vecs, [pid |-> p, vec |-> _normalize(e.vec)]),
                           Append(ids, p))

\* The pair (index, ids) a caller holds; NoPair is (None, None).
Pair(index, ids, mgen) == [index |-> index, ids |-> ids, mgen |-> mgen]
NoPair == Pair(AbsentFile, <<>>, 0)

\* build_index as one uninterrupted call. S: the product store, g: a tag of
\* this build (not program state), idx/meta: the files before the call.
build_index_early_write(S, c, key, bad, g, idx, meta) ==
    LET r == BuildLoop(ListAll(S), c, key, bad, <<>>, <<>>)
    IN IF r.raised # "none"
         THEN [raised |-> r.raised, pair |-> NoPair, cache |-> r.cache,
               idx |-> idx, meta |-> meta]
       ELSE IF r.vecs = <<>>
         THEN [raised |-> "empty_corpus", pair |-> NoPair, cache |-> r.cache,
               idx |-> IndexContent(g, r.vecs), meta |-> MetaContent(g, r.ids)]
       ELSE [raised |-> "none",
             pair |-> Pair(IndexContent(g, r.vecs), r.ids, g),
             cache |-> r.cache,
             idx |-> IndexContent(g, r.vecs), meta |-> MetaContent(g, r.ids)]

build_index_keep_index(S, c, key, bad, g, idx, meta) ==
    LET r == BuildLoop(ListAll(S), c, key, bad, <<>>, <<>>)
        newidx == IF idx.st = "ok" THEN idx ELSE IndexContent(g, r.vecs)
    IN IF r.raised # "none"
         THEN [raised |-> r.raised, pair |-> NoPair, cache |-> r.cache,
               idx |-> idx, meta |-> meta]
       ELSE IF r.vecs = <<>>
         THEN [raised |-> "empty_corpus", pair |-> NoPair, cache |-> r.cache,
               idx |-> idx, meta |-> meta]
       ELSE [raised |-> "none", pair |-> Pair(newidx, r.ids, g),
             cache |-> r.cache, idx |-> newidx, meta |-> MetaContent(g, r.ids)]

build_index(S, c, key, bad, g, idx, meta) ==
    LET r == BuildLoop(ListAll(S), c, key, bad, <<>>, <<>>)
    IN IF r.raised # "none"
         THEN [raised |-> r.raised, pair |-> NoPair, cache |-> r.cache,
               idx |-> idx, meta |-> meta]
       ELSE IF r.vecs = <<>>
         THEN [raised |-> "empty_corpus", pair |-> NoPair, cache |-> r.cache,
               idx |-> idx, meta |-> meta]
       ELSE [raised |-> "none",
             pair |-> Pair(IndexContent(g, r.vecs), r.ids, g),
             cache |-> r.cache,
             idx |-> IndexContent(g, r.vecs), meta |-> MetaContent(g, r.ids)]

\* -------------------------------------------------------------- load_index
\* The try block of load_index on the file contents it reads: reading a
\* missing or unparsable file raises.
LoadBody(idx, meta) ==
    IF idx.st # "ok" THEN [raised |-> TRUE, pair |-> NoPair]
    ELSE IF meta.st # "ok" THEN [raised |-> TRUE, pair |-> NoPair]
    ELSE [raised |-> FALSE, pair |-> Pair(idx, meta.ids, meta.gen)]

\* seenIdx/seenMeta: what os.path.exists saw; idx/meta: what the reads find.
load_index_no_except(seenIdx, seenMeta, idx, meta) ==
    IF ~(seenIdx.st # "absent" /\ seenMeta.st # "absent")
      THEN [raised |-> FALSE, pair |-> NoPair]
    ELSE LoadBody(idx, meta)

load_index(seenIdx, seenMeta, idx, meta) ==
    IF ~(seenIdx.st # "absent" /\ seenMeta.st # "absent")
      THEN [raised |-> FALSE, pair |-> NoPair]
    ELSE LET r == LoadBody(idx, meta)
         IN IF r.raised THEN [raised |-> FALSE, pair |-> NoPair] ELSE r

\* `index is None or not ids` (vector_store.py lines 95 and 116)
NotLoadable(pair) == pair.index.st # "ok" \/ pair.ids = <<>>

\* ------------------------------------------------------------ index.search
\* IndexFlatIP.search: the k best positions by inner product, best first,
\* equal scores in position order; labels are 0-based and the result is
\* padded with label -1 when the index holds fewer than k vectors.
PadScore == 0 - 1000

RECURSIVE TopLabels(_, _, _, _)
TopLabels(vecs, qn, k, chosen) ==
    IF Len(chosen) >= k THEN chosen
    ELSE LET taken == {chosen[j] + 1 : j \in 1..Len(chosen)}
             rest == (1..Len(vecs)) \ taken
         IN IF rest = {}
              THEN TopLabels(vecs, qn, k, Append(chosen, 0 - 1))
            ELSE LET best == CHOOSE i \in rest : \A j \in rest :
                               \/ InnerProduct(qn, vecs[i].vec) > InnerProduct(qn, vecs[j].vec)
                               \/ /\ InnerProduct(qn, vecs[i].vec) = InnerProduct(qn, vecs[j].vec)
                                  /\ i <= j
                 IN TopLabels(vecs, qn, k, Append(chosen, best - 1))

Search(vecs, qn, k) ==
    LET I == TopLabels(vecs, qn, k, <<>>)
    IN [I |-> I,
        D |-> [j \in 1..Len(I) |->
                 IF I[j] < 0 THEN PadScore ELSE InnerProduct(qn, vecs[I[j] + 1].vec)]]

\* ------------------------------------------------- query, query_with_scores
\* W: what a call finds: [products, cache, key, bad, gen, idx, meta].
World(S, c, key, bad, g, idx, meta) ==
    [products |-> S, cache |-> c, key |-> key, bad |-> bad, gen |-> g,
     idx |-> idx, meta |-> meta]

\* Lines 115-117 (and 94-96): load, and build when nothing loadable.
\* l: what load_index answered, b: what build_index answered.
Built(l, b) ==
    [raised |-> b.raised, pair |-> b.pair, cache |-> b.cache,
     idx |-> b.idx, meta |-> b.meta, built |-> TRUE, loaded |-> l.pair]

\* the query building at every call, whatever load_index answered
BuildAlways(W, l) ==
    IF l.raised
      THEN [raised |-> "load", pair |-> NoPair, cache |-> W.cache,
            idx |-> W.idx, meta |-> W.meta, built |-> FALSE, loaded |-> l.pair]
    ELSE Built(l, build_index(W.products, W.cache, W.key, W.bad, W.gen, W.idx, W.meta))

BuildIfNotLoadable(W, l) ==
    IF l.raised
      THEN [raised |-> "load", pair |-> NoPair, cache |-> W.cache,
            idx |-> W.idx, meta |-> W.meta, built |-> FALSE, loaded |-> l.pair]
    ELSE IF NotLoadable(l.pair)
      THEN Built(l, build_index(W.products, W.cache, W.key, W.bad, W.gen, W.idx, W.meta))
    ELSE [raised |-> "none", pair |-> l.pair, cache |-> W.cache,
          idx |-> W.idx, meta |-> W.meta, built |-> FALSE, loaded |-> l.pair]

LoadOrBuild(W) == BuildIfNotLoadable(W, load_index(W.idx, W.meta, W.idx, W.meta))

\* the hit loop without the range test of line 128
RECURSIVE HitLoopNoRangeCheck(_, _, _, _, _)
HitLoopNoRangeCheck(I, D, ids, rows, pos) ==
    IF pos > Len(I) THEN <<>>
    ELSE LET idx == I[pos]
             rest == HitLoopNoRangeCheck(I, D, ids, rows, pos + 1)
         IN IF idx >= 0 /\ idx < Len(ids)
              THEN IF ids[idx + 1] \in rows
                     THEN <<[id |-> ids[idx + 1], score |-> D[pos]]>> \o rest
                   ELSE rest
            ELSE <<[id |-> NoId, score |-> D[pos]]>> \o rest

\* Lines 127-132: the hits of the search that resolve to a stored product.
RECURSIVE HitLoop(_, _, _, _, _)
HitLoop(I, D, ids, rows, pos) ==
    IF pos > Len(I) THEN <<>>
    ELSE LET idx == I[pos]
             rest == HitLoop(I, D, ids, rows, pos + 1)
         IN IF idx >= 0 /\ idx < Len(ids)
              THEN IF ids[idx + 1] \in rows
                     THEN <<[id |-> ids[idx + 1], score |-> D[pos]]>> \o rest
                   ELSE rest
            ELSE rest

Hits(I, D, ids, rows) == HitLoop(I, D, ids, rows, 1)

SeqRange(s) == {s[i] : i \in 1..Len(s)}

\* what a query answers: lb is what LoadOrBuild answered
QueryOut(raised, hits, lb, c, I) ==
    [raised |-> raised, hits |-> hits, lb |-> lb, cache |-> c, I |-> I]

\* lines 123-133 on the search result s
ScoredHits(W, lb, e, s) ==
    QueryOut("none",
             IF lb.pair.ids # <<>>
               THEN Hits(s.I, s.D, lb.pair.ids, W.products \cap SeqRange(lb.pair.ids))
             ELSE <<>>,
             lb, e.cache, s.I)

\* lines 119-121 on the embedding outcome e
ScoredSearch(W, top_k, lb, e) ==
    IF e.raised # "none" THEN QueryOut(e.raised, <<>>, lb, e.cache, <<>>)
    ELSE ScoredHits(W, lb, e, Search(lb.pair.index.vecs, _normalize(e.vec), top_k))

ScoredEmbed(W, text, top_k, lb) ==
    IF lb.raised # "none" THEN QueryOut(lb.raised, <<>>, lb, lb.cache, <<>>)
    ELSE ScoredSearch(W, top_k, lb, _get_embedding(text, lb.cache, W.key, W.bad))

query_with_scores(W, text, top_k) == ScoredEmbed(W, text, top_k, LoadOrBuild(W))

\* Lines 102-108 of query: the hit ids in search order, then the stored rows.
RECURSIVE HitIds(_, _, _)
HitIds(I, ids, pos) ==
    IF pos > Len(I) THEN <<>>
    ELSE IF I[pos] >= 0 /\ I[pos] < Len(ids)
      THEN <<ids[I[pos] + 1]>> \o HitIds(I, ids, pos + 1)
    ELSE HitIds(I, ids, pos + 1)

\* every hit id answered, stored or not
KeepRowsAll(hit_ids, rows) == hit_ids

RECURSIVE KeepRows(_, _)
KeepRows(hit_ids, rows) ==
    IF hit_ids = <<>> THEN <<>>
    ELSE IF Head(hit_ids) \in rows
      THEN <<Head(hit_ids)>> \o KeepRows(Tail(hit_ids), rows)
    ELSE KeepRows(Tail(hit_ids), rows)

\* lines 107-108: the rows in hit order
QueryRows(lb, e, s, kept) ==
    QueryOut("none", [j \in 1..Len(kept) |-> [id |-> kept[j], score |-> 0]],
             lb, e.cache, s.I)

\* lines 102-106: the ids of the hits, then the rows stored under them
QueryHits(W, lb, e, s, hit_ids) ==
    QueryRows(lb, e, s, KeepRows(hit_ids, W.products \cap SeqRange(hit_ids)))

QuerySearch(W, top_k, lb, e) ==
    IF e.raised # "none" THEN QueryOut(e.raised, <<>>, lb, e.cache, <<>>)
    ELSE QueryHits(W, lb, e, Search(lb.pair.index.vecs, _normalize(e.vec), top_k),
                   HitIds(Search(lb.pair.index.vecs, _normalize(e.vec), top_k).I,
                          lb.pair.ids, 1))

QueryEmbed(W, text, top_k, lb) ==
    IF lb.raised # "none" THEN QueryOut(lb.raised, <<>>, lb, lb.cache, <<>>)
    ELSE QuerySearch(W, top_k, lb, _get_embedding(text, lb.cache, W.key, W.bad))

query(W, text, top_k) == QueryEmbed(W, text, top_k, LoadOrBuild(W))

\* ==================================================================== state
VARIABLES
    products,    \* ids of the rows of the products table
    cache,       \* _EMBED_CACHE: key -> vector (NoVec: not cached)
    apiKey,      \* OPENAI_API_KEY is configured
    indexFile,   \* INDEX_FILE
    metaFile,    \* META_FILE
    ret,         \* the operation that has just run: inputs, findings, outcome
    gen,         \* builds started so far (tags the files a build writes)
    wpc,         \* per server process: where its current operation stands
    wloc,        \* per server process: the locals of its current operation
    fetched,     \* per cache key: successful calls to the embedding source
    history,     \* conversation_memory[conversation_id] of the /chat endpoint
    tpc,         \* where the current turn stands: idle, intent, tools, synth, done
    msgs,        \* the message list of generate_response
    req,         \* response_message.tool_calls of the intent call
    ti,          \* the tool call the loop of _finalize_with_tools is at
    results,     \* tool_results
    out,         \* how generate_response ended: the dict returned, or a raise
    trace        \* the completion and tool calls of the current turn, in order

storeVars == <<products, cache, apiKey, indexFile, metaFile, ret>>
concVars == <<gen, wpc, wloc>>
turnVars == <<history, tpc, msgs, req, ti, results, out, trace>>
embedVars == <<fetched>>
vars == <<storeVars, concVars, embedVars, turnVars>>

NoOut == [status |-> "none", response |-> "", tool_calls |-> <<>>]
TurnIdle == /\ history = <<>>
            /\ tpc = "idle"
            /\ msgs = <<>>
            /\ req = <<>>
            /\ ti = 0
            /\ results = <<>>
            /\ out = NoOut
            /\ trace = <<>>

\* the server processes that share the data/faiss directory
Workers == {1, 2}
NoLoc == [op |-> "none", seenI |-> AbsentFile, seenM |-> AbsentFile,
          idx |-> AbsentFile, loaded |-> NoPair, built |-> NoPair,
          n |-> 0, answer |-> "none"]
\* no text has been fetched from the embedding source by this process
EmbedIdle == fetched = [k \in Keys |-> 0]

ConcIdle == /\ gen = 0
            /\ wpc = [w \in Workers |-> "idle"]
            /\ wloc = [w \in Workers |-> NoLoc]

\* ------------------------------------------------------------------ inputs
QueryTexts == {[b |-> k, v |-> 0] : k \in Keys}
ProdTexts == {ProdText(p) : p \in ProdIds}
AllTexts == QueryTexts \cup ProdTexts
\* the texts the embedding source fails on during one operation
FailChoices == {{}, AllTexts} \cup {{t} : t \in ProdTexts}
\* the catalogues a seed file holds: none, all products, all but the first
Seeds == {{}, ProdIds, ProdIds \ {1}}

NoRet == [op |-> "idle", text |-> [b |-> 0, v |-> 0], k |-> 0, bad |-> {},
          raised |-> "none", hits |-> <<>>, I |-> <<>>, pair |-> NoPair,
          loaded |-> NoPair, built |-> FALSE,
          budget |-> NoBudget, min |-> 0, vision |-> "", items |-> <<>>,
          queried |-> FALSE, completion |-> "", val |-> "", inner |-> "",
          calls |-> 0, vec |-> NoVec,
          msgs |-> <<>>, trace |-> <<>>, out |-> NoOut, store |-> <<>>]

Here(bad) == World(products, cache, apiKey, bad, 0, indexFile, metaFile)

\* --------------------------------------------------------------------- Init
\* A fresh process: empty cache, the seeded catalogue, no snapshot yet.
Init ==
    /\ products \in {{}, {1, 2}}
    /\ cache = EmptyCache
    /\ apiKey \in BOOLEAN
    /\ indexFile = AbsentFile
    /\ metaFile = AbsentFile
    /\ ret = NoRet
    /\ ConcIdle
    /\ EmbedIdle
    /\ TurnIdle

\* ------------------------------------------------------------------ actions
\* POST /rebuild-index -> recommendation_service.rebuild_index -> build_index
RebuildIndex(bad) ==
    LET b == build_index(products, cache, apiKey, bad, 0, indexFile, metaFile)
    IN /\ ret = NoRet
       /\ cache' = b.cache
       /\ indexFile' = b.idx
       /\ metaFile' = b.meta
       /\ ret' = [NoRet EXCEPT !.op = "rebuild", !.bad = bad, !.raised = b.raised,
                              !.pair = b.pair, !.built = TRUE]
       /\ UNCHANGED <<products, apiKey, concVars, embedVars, turnVars>>

\* POST /admin/reseed-and-reindex: reseed_products() replaces the table by the
\* seed file's products, then rebuild_index runs on the new table.
ReseedAndReindex(seed, bad) ==
    LET b == build_index(seed, cache, apiKey, bad, 0, indexFile, metaFile)
    IN /\ ret = NoRet
       /\ products' = seed
       /\ cache' = b.cache
       /\ indexFile' = b.idx
       /\ metaFile' = b.meta
       /\ ret' = [NoRet EXCEPT !.op = "reseed", !.bad = bad, !.raised = b.raised,
                              !.pair = b.pair, !.built = TRUE]
       /\ UNCHANGED <<apiKey, concVars, embedVars, turnVars>>

\* POST /products: one more row, with the next primary key
CreateProduct ==
    LET next == IF products = {} THEN 1
                ELSE (CHOOSE m \in products : \A x \in products : x <= m) + 1
    IN /\ ret = NoRet
       /\ next <= MaxProd
       /\ products' = products \cup {next}
       /\ UNCHANGED <<cache, apiKey, indexFile, metaFile, ret, concVars, embedVars, turnVars>>

\* a query operation has run with outcome r
Answered(op, text, top_k, bad, r) ==
    /\ cache' = r.cache
    /\ indexFile' = r.lb.idx
    /\ metaFile' = r.lb.meta
    /\ ret' = [NoRet EXCEPT !.op = op, !.text = text, !.k = top_k,
                           !.bad = bad, !.raised = r.raised, !.hits = r.hits,
                           !.I = r.I, !.pair = r.lb.pair, !.loaded = r.lb.loaded,
                           !.built = r.lb.built]
    /\ UNCHANGED <<products, apiKey, concVars, embedVars, turnVars>>

\* POST /recommend -> recommend_by_text -> query(top_k = 5)
Recommend(text, bad) ==
    /\ ret = NoRet
    /\ Answered("query", text, TopKEndpoint, bad, query(Here(bad), text, TopKEndpoint))

\* query_with_scores as the two tools call it (top_k = 2 and top_k = 5)
QueryWithScores(text, top_k, bad) ==
    /\ ret = NoRet
    /\ Answered("query_with_scores", text, top_k, bad,
                query_with_scores(Here(bad), text, top_k))

\* The operation's outcome has been handed to its caller.
Return ==
    /\ ret # NoRet
    /\ ret' = NoRet
    /\ UNCHANGED <<products, cache, apiKey, indexFile, metaFile, concVars, embedVars, turnVars>>

\* The storage under data/faiss is outside the program: a snapshot file can be
\* deleted or damaged there.
DeleteFile ==
    /\ ret = NoRet
    /\ \/ indexFile.st # "absent" /\ indexFile' = AbsentFile /\ UNCHANGED metaFile
       \/ metaFile.st # "absent" /\ metaFile' = AbsentFile /\ UNCHANGED indexFile
    /\ UNCHANGED <<products, cache, apiKey, ret, concVars, embedVars, turnVars>>

DamageFile ==
    /\ ret = NoRet
    /\ \/ indexFile.st = "ok" /\ indexFile' = CorruptFile /\ UNCHANGED metaFile
       \/ metaFile.st = "ok" /\ metaFile' = CorruptFile /\ UNCHANGED indexFile
    /\ UNCHANGED <<products, cache, apiKey, ret, concVars, embedVars, turnVars>>

\* The process is restarted: the in-memory cache is lost, the environment is
\* read again, the files and the database stay.
Restart ==
    /\ ret = NoRet
    /\ cache' = EmptyCache
    /\ apiKey' \in BOOLEAN
    /\ UNCHANGED <<products, indexFile, metaFile, ret, concVars, embedVars, turnVars>>

Next ==
    \/ \E bad \in FailChoices : RebuildIndex(bad)
    \/ \E seed \in Seeds, bad \in FailChoices : ReseedAndReindex(seed, bad)
    \/ CreateProduct
    \/ \E text \in QueryTexts, bad \in FailChoices : Recommend(text, bad)
    \/ \E text \in QueryTexts, k \in {TopKTool, TopKImage}, bad \in FailChoices :
          QueryWithScores(text, k, bad)
    \/ Return
    \/ DeleteFile
    \/ DamageFile
    \/ Restart

Spec == Init /\ [][Next]_vars

\* ============================================ rebuild and query, interleaved
\* No lock guards the two snapshot files (vector_store.py takes none), and
\* several server processes share them: here every file operation of
\* build_index and load_index is a step of its own. The embedding source is
\* up and every build gets a fresh tag.
InitConc ==
    /\ products = {1, 2}
    /\ cache = EmptyCache
    /\ apiKey = TRUE
    /\ indexFile = AbsentFile
    /\ metaFile = AbsentFile
    /\ ret = NoRet
    /\ ConcIdle
    /\ EmbedIdle
    /\ TurnIdle

Goto(w, pc) == wpc' = [wpc EXCEPT ![w] = pc]

\* a rebuild (POST /rebuild-index) or a query arrives at process w
CStart(w, op) ==
    /\ wpc[w] = "idle"
    /\ wloc' = [wloc EXCEPT ![w] = [NoLoc EXCEPT !.op = op]]
    /\ Goto(w, IF op = "rebuild" THEN "b_compute" ELSE "q_exists")
    /\ UNCHANGED <<storeVars, gen, embedVars, turnVars>>

\* load_index line 80: both os.path.exists tests
CExists(w) ==
    /\ wpc[w] = "q_exists"
    /\ wloc' = [wloc EXCEPT ![w].seenI = indexFile, ![w].seenM = metaFile]
    /\ Goto(w, IF indexFile.st # "absent" /\ metaFile.st # "absent"
                 THEN "q_read_idx" ELSE "b_compute")
    /\ UNCHANGED <<storeVars, gen, embedVars, turnVars>>

\* load_index line 83: faiss.read_index; a failure ends load_index with absent
CReadIndex(w) ==
    /\ wpc[w] = "q_read_idx"
    /\ IF indexFile.st = "ok"
         THEN /\ wloc' = [wloc EXCEPT ![w].idx = indexFile]
              /\ Goto(w, "q_read_meta")
       ELSE /\ wloc' = [wloc EXCEPT ![w].loaded =
                          load_index(wloc[w].seenI, wloc[w].seenM, indexFile, metaFile).pair]
            /\ Goto(w, "b_compute")
    /\ UNCHANGED <<storeVars, gen, embedVars, turnVars>>

\* load_index lines 84-86: the sidecar is read; lines 116-117 of the query
CReadMeta(w) ==
    LET l == load_index(wloc[w].seenI, wloc[w].seenM, wloc[w].idx, metaFile).pair
    IN /\ wpc[w] = "q_read_meta"
       /\ wloc' = [wloc EXCEPT ![w].loaded = l]
       /\ Goto(w, IF NotLoadable(l) THEN "b_compute" ELSE "q_search")
       /\ UNCHANGED <<storeVars, gen, embedVars, turnVars>>

\* build_index lines 51-69: the embeddings of the stored products
CCompute(w) ==
    LET r == BuildLoop(ListAll(products), EmptyCache, TRUE, {}, <<>>, <<>>)
    IN /\ wpc[w] = "b_compute"
       /\ gen < MaxBuilds
       /\ gen' = gen + 1
       /\ IF r.vecs = <<>>
            THEN /\ Goto(w, "idle")
                 /\ UNCHANGED wloc
          ELSE /\ wloc' = [wloc EXCEPT ![w].built =
                             Pair(IndexContent(gen + 1, r.vecs), r.ids, gen + 1)]
               /\ Goto(w, "b_open_idx")
       /\ UNCHANGED <<storeVars, embedVars, turnVars>>

\* build_index line 71: faiss.write_index opens the file for writing ...
COpenIndex(w) ==
    /\ wpc[w] = "b_open_idx"
    /\ indexFile' = CorruptFile
    /\ Goto(w, "b_write_idx")
    /\ UNCHANGED <<products, cache, apiKey, metaFile, ret, gen, wloc, embedVars, turnVars>>

\* ... and writes the index
CWriteIndex(w) ==
    /\ wpc[w] = "b_write_idx"
    /\ indexFile' = wloc[w].built.index
    /\ Goto(w, "b_open_meta")
    /\ UNCHANGED <<products, cache, apiKey, metaFile, ret, gen, wloc, embedVars, turnVars>>

\* build_index line 72: open(META_FILE, "w") empties the sidecar ...
COpenMeta(w) ==
    /\ wpc[w] = "b_open_meta"
    /\ metaFile' = CorruptFile
    /\ Goto(w, "b_write_meta")
    /\ UNCHANGED <<products, cache, apiKey, indexFile, ret, gen, wloc, embedVars, turnVars>>

\* ... and line 73 writes it; a rebuild is done, a query goes on to search
CWriteMeta(w) ==
    /\ wpc[w] = "b_write_meta"
    /\ metaFile' = MetaContent(wloc[w].built.mgen, wloc[w].built.ids)
    /\ Goto(w, IF wloc[w].op = "rebuild" THEN "idle" ELSE "q_search")
    /\ UNCHANGED <<products, cache, apiKey, indexFile, ret, gen, wloc, embedVars, turnVars>>

\* query_with_scores lines 119-133 on the pair the process holds
CSearch(w) ==
    /\ wpc[w] = "q_search"
    /\ Goto(w, "idle")
    /\ UNCHANGED <<storeVars, gen, wloc, embedVars, turnVars>>

\* POST /products at any moment
CCreateProduct ==
    /\ products # ProdIds
    /\ products' = products \cup {(CHOOSE m \in products : \A x \in products : x <= m) + 1}
    /\ UNCHANGED <<cache, apiKey, indexFile, metaFile, ret, concVars, embedVars, turnVars>>

NextConc ==
    \/ \E w \in Workers, op \in {"rebuild", "query"} : CStart(w, op)
    \/ \E w \in Workers : CExists(w)
    \/ \E w \in Workers : CReadIndex(w)
    \/ \E w \in Workers : CReadMeta(w)
    \/ \E w \in Workers : CCompute(w)
    \/ \E w \in Workers : COpenIndex(w)
    \/ \E w \in Workers : CWriteIndex(w)
    \/ \E w \in Workers : COpenMeta(w)
    \/ \E w \in Workers : CWriteMeta(w)
    \/ \E w \in Workers : CSearch(w)
    \/ CCreateProduct

SpecConc == InitConc /\ [][NextConc]_vars

\* =========================================================== vector store claims
IsQuery(r) == r.op \in {"query", "query_with_scores"}

Min(a, b) == IF a < b THEN a ELSE b

\* what load_index answers on the files as they are now
LoadNow == load_index(indexFile, metaFile, indexFile, metaFile).pair

\* _get_embedding(text) would return a vector
Embeddable(text, c, key, bad) == c[Key(text)] # NoVec \/ (key /\ text \notin bad)

Aligned(pair) ==
    pair.index.st = "ok" =>
        /\ Len(pair.ids) = Len(pair.index.vecs)
        /\ \A i \in 1..Len(pair.ids) : pair.index.vecs[i].pid = pair.ids[i]

\* C5: every (index, ids) pair that build_index returns and every non-absent
\* pair that load_index returns has as many ids as the index has vectors, and
\* position i of the index holds the vector computed for product ids[i].
C5_Alignment == Aligned(ret.pair) /\ Aligned(ret.loaded)

\* a query loaded a snapshot of several products that no longer matches the store
C5_Witness ==
    /\ IsQuery(ret)
    /\ ret.loaded.index.st = "ok"
    /\ Len(ret.loaded.ids) >= 2
    /\ SeqRange(ret.loaded.ids) # products

\* C7: when no snapshot is loadable, the store holds at least one embeddable
\* product (and the query text can be embedded), a query rebuilds the index,
\* persists the new snapshot and returns without raising, and a load then
\* returns that snapshot.
C7_LazyRebuild ==
    [][ ( /\ IsQuery(ret')
          /\ NotLoadable(LoadNow)
          /\ \E p \in products : Embeddable(ProdText(p), cache, apiKey, ret'.bad)
          /\ Embeddable(ret'.text, cache, apiKey, ret'.bad) )
        => ( /\ ret'.raised = "none"
             /\ ret'.built
             /\ ~NotLoadable(LoadNow')
             /\ LoadNow' = ret'.pair ) ]_vars

\* C8: load_index never raises: it answers absent when a file is missing or
\* unreadable and otherwise the persisted index with its ids.
C8_LoadNeverRaises ==
    [][ IsQuery(ret') =>
          /\ ret'.raised # "load"
          /\ ret'.loaded = IF indexFile.st = "ok" /\ metaFile.st = "ok"
                             THEN Pair(indexFile, metaFile.ids, metaFile.gen)
                           ELSE NoPair ]_vars

\* a query found both files present, the index file unreadable: load_index
\* answered absent, and the build that followed failed and left the files
C8_Witness ==
    /\ IsQuery(ret)
    /\ ret.loaded = NoPair
    /\ ret.built
    /\ ret.raised \in {"provider", "config"}
    /\ indexFile.st = "corrupt"
    /\ metaFile.st = "ok"

\* C9: a build that ends with the empty-corpus error writes nothing: both
\* snapshot files are unchanged and load_index answers what it answered before.
C9_EmptyCorpusWritesNothing ==
    [][ ret'.raised = "empty_corpus" =>
          /\ indexFile' = indexFile
          /\ metaFile' = metaFile
          /\ LoadNow' = LoadNow ]_vars

\* a reseed emptied the table, the rebuild failed, the old snapshot is in place
C9_Witness ==
    /\ ret.op = "reseed"
    /\ ret.raised = "empty_corpus"
    /\ products = {}
    /\ ~NotLoadable(LoadNow)

\* ---- C10
\* the positions of the index whose id is a stored product
Resolvable(pair) == {i \in 1..Len(pair.ids) : pair.ids[i] \in products}

\* the position of id in the ids of the pair (0: none)
PosOf(pair, id) ==
    IF \E i \in 1..Len(pair.ids) : pair.ids[i] = id
      THEN CHOOSE i \in 1..Len(pair.ids) : pair.ids[i] = id
    ELSE 0

\* the normalized vector of the last query's text
QueryVec == _normalize(cache[Key(ret.text)])

ScoreAt(pair, i) == InnerProduct(QueryVec, pair.index.vecs[i].vec)

\* how many positions of the index come before position i in the ranking
\* (higher score first, equal scores in corpus order)
RankOf(pair, i) ==
    Cardinality({j \in 1..Len(pair.index.vecs) :
                   \/ ScoreAt(pair, j) > ScoreAt(pair, i)
                   \/ ScoreAt(pair, j) = ScoreAt(pair, i) /\ j < i})

OrderedHits(r) ==
    /\ \A j \in 1..Len(r.hits) :
          /\ r.hits[j].id \in products
          /\ PosOf(r.pair, r.hits[j].id) # 0
          /\ r.hits[j].score = ScoreAt(r.pair, PosOf(r.pair, r.hits[j].id))
    /\ \A j \in 1..(Len(r.hits) - 1) :
          \/ r.hits[j].score > r.hits[j + 1].score
          \/ /\ r.hits[j].score = r.hits[j + 1].score
             /\ PosOf(r.pair, r.hits[j].id) < PosOf(r.pair, r.hits[j + 1].id)

QwsDone(r) == r.op = "query_with_scores" /\ r.raised = "none"

C6_NoTornSnapshot ==
    \A w \in Workers :
        wloc[w].loaded.index.st = "ok" => wloc[w].loaded.index.gen = wloc[w].loaded.mgen

\* ================================================================ the turn
\* ------------------------------------------------------------- context.py
NoResult == [error |-> "", items |-> <<>>]
Msg(role, kind, ref) == [role |-> role, kind |-> kind, ref |-> ref, name |-> "",
                         result |-> NoResult]
Turn(role, n, summary) == [role |-> role, n |-> n, summary |-> summary]

\* s[-n:] of Python, for n > 0
LastN(s, n) == IF Len(s) <= n THEN s ELSE SubSeq(s, Len(s) - n + 1, Len(s))
\* s[:-n] of Python, for n > 0
DropLastN(s, n) == IF Len(s) <= n THEN <<>> ELSE SubSeq(s, 1, Len(s) - n)

\* summarize_history: "none" is None; completion is what the completion call
\* does when it is made: "raise", or the content "text" or "empty" ("").
\* the guards of lines 30-33 with the window one turn too short
SummaryCalledKeepOne(hist) ==
    /\ ~(hist = <<>> \/ Len(hist) <= keep_recent_turns - 1)
    /\ DropLastN(hist, keep_recent_turns - 1) # <<>>

SummaryCalled(hist) ==
    /\ ~(hist = <<>> \/ Len(hist) <= keep_recent_turns)
    /\ DropLastN(hist, keep_recent_turns) # <<>>

\* summarize_history without the except of lines 55-57: the exception of the
\* completion call leaves the function
summarize_history_no_except(hist, completion) ==
    IF ~SummaryCalled(hist) THEN "none"
    ELSE IF completion = "raise" THEN "raised"
    ELSE completion

summarize_history(hist, completion) ==
    IF ~SummaryCalled(hist) THEN "none"
    ELSE IF completion = "raise" THEN "none"
    ELSE completion

\* lines 31 and 45-46: the turns handed to the summarization call, the last
\* SummaryWindow of the turns older than the recent ones
SummaryInput(hist) == LastN(DropLastN(hist, keep_recent_turns), SummaryWindow)

\* summarize_for_memory (lines 60-68): a summary message when the summary
\* is truthy, else None ("none")
ForMemory(summary) == IF summary = "text" THEN "message" ELSE "none"
summarize_for_memory(hist, completion) == ForMemory(summarize_history(hist, completion))

\* the scan of lines 76-79 run from the oldest turn instead of the newest
RECURSIVE OldestSummary(_)
OldestSummary(hist) ==
    IF hist = <<>> THEN <<>>
    ELSE IF Head(hist).role = "system" /\ Head(hist).summary
      THEN <<Msg("system", "summary", Head(hist).n)>>
    ELSE OldestSummary(Tail(hist))

\* the newest history turn that is a stored summary, scanning from the end
RECURSIVE CarriedSummary(_)
CarriedSummary(hist) ==
    IF hist = <<>> THEN <<>>
    ELSE IF hist[Len(hist)].role = "system" /\ hist[Len(hist)].summary
      THEN <<Msg("system", "summary", hist[Len(hist)].n)>>
    ELSE CarriedSummary(SubSeq(hist, 1, Len(hist) - 1))

build_messages(hist, user_n, completion) ==
    <<Msg("system", "persona", 0)>>
    \o CarriedSummary(hist)
    \o (IF hist # <<>> /\ Len(hist) > max_history_turns
             /\ summarize_history(hist, completion) = "text"
          THEN <<Msg("system", "fresh_summary", 0)>> ELSE <<>>)
    \o [i \in 1..Len(LastN(hist, keep_recent_turns)) |->
          Msg(LastN(hist, keep_recent_turns)[i].role, "turn",
              LastN(hist, keep_recent_turns)[i].n)]
    \o <<Msg("user", "new_user", user_n)>>

\* build_messages calls summarize_history outside any try block (line 84): an
\* exception that leaves summarize_history leaves build_messages too
BuildRaises(hist, completion) ==
    /\ hist # <<>>
    /\ Len(hist) > max_history_turns
    /\ summarize_history(hist, completion) = "raised"

\* --------------------------------------------------------------- tool.py
ToolCall(id, name, ok, text, budget) ==
    [id |-> id, name |-> name, ok |-> ok, text |-> text, budget |-> budget]

\* the threshold test with > in place of >=
RECURSIVE KeepAbove(_, _)
KeepAbove(hits, min_similarity) ==
    IF hits = <<>> THEN <<>>
    ELSE IF Head(hits).score <= min_similarity
      THEN KeepAbove(Tail(hits), min_similarity)
    ELSE <<Head(hits)>> \o KeepAbove(Tail(hits), min_similarity)

\* the kept hits collected in front of the list instead of at its end
RECURSIVE KeepAtLeastReversed(_, _)
KeepAtLeastReversed(hits, min_similarity) ==
    IF hits = <<>> THEN <<>>
    ELSE IF Head(hits).score < min_similarity
      THEN KeepAtLeastReversed(Tail(hits), min_similarity)
    ELSE KeepAtLeastReversed(Tail(hits), min_similarity) \o <<Head(hits)>>

\* lines 38-40 (and 94-96): hits below the threshold are skipped
RECURSIVE KeepAtLeast(_, _)
KeepAtLeast(hits, min_similarity) ==
    IF hits = <<>> THEN <<>>
    ELSE IF Head(hits).score < min_similarity
      THEN KeepAtLeast(Tail(hits), min_similarity)
    ELSE <<Head(hits)>> \o KeepAtLeast(Tail(hits), min_similarity)

\* the budget test without the test for a missing price
RECURSIVE WithinBudgetNullKept(_, _)
WithinBudgetNullKept(recs, budget) ==
    IF recs = <<>> THEN <<>>
    ELSE IF Price(Head(recs).id) <= budget
      THEN <<Head(recs)>> \o WithinBudgetNullKept(Tail(recs), budget)
    ELSE WithinBudgetNullKept(Tail(recs), budget)

\* line 51: the recommendations with a price that is within the budget
RECURSIVE WithinBudget(_, _)
WithinBudget(recs, budget) ==
    IF recs = <<>> THEN <<>>
    ELSE IF Price(Head(recs).id) # NoPrice /\ Price(Head(recs).id) <= budget
      THEN <<Head(recs)>> \o WithinBudget(Tail(recs), budget)
    ELSE WithinBudget(Tail(recs), budget)

\* what a tool answers after the vector query answered r; hits is what the
\* query returned to the tool
ToolOut(raised, result, r) ==
    [raised |-> raised, result |-> result, cache |-> r.cache,
     idx |-> r.lb.idx, meta |-> r.lb.meta, hits |-> r.hits, queried |-> TRUE]

\* what a tool answers without having called the vector query
NoQuery(W, raised, result) ==
    [raised |-> raised, result |-> result, cache |-> W.cache,
     idx |-> W.idx, meta |-> W.meta, hits |-> <<>>, queried |-> FALSE]

\* ToolExecutor.recommend_products: try/finally, no except; r is what
\* query_with_scores answered
Recommended(r, budget, recs) ==
    IF r.raised # "none" THEN ToolOut(TRUE, NoResult, r)
    ELSE ToolOut(FALSE,
                 [error |-> "",
                  items |-> IF budget # NoBudget THEN WithinBudget(recs, budget)
                            ELSE recs],
                 r)

RecommendedFrom(r, budget, min_similarity) ==
    Recommended(r, budget, KeepAtLeast(r.hits, min_similarity))

recommend_products(W, user_preferences, budget, min_similarity) ==
    RecommendedFrom(query_with_scores(W, user_preferences, TopKTool), budget,
                    min_similarity)

\* ToolExecutor.search_by_image: vision is what the vision completion does
\* ("raise", or the phrase it returns: "empty" or a text); every exception
\* ends in the empty list.
ImageMatches(r) ==
    IF r.raised # "none" THEN ToolOut(FALSE, NoResult, r)
    ELSE ToolOut(FALSE, [error |-> "", items |-> KeepAtLeast(r.hits, MinSimImage)], r)

\* line 84: (content or "").strip() is the empty string when the content is
\* null, empty or blanks only
StrippedEmpty(vision) == vision.st \in {"null", "empty", "blank"}

\* search_by_image without the test of lines 86-87
search_by_image_query_anyway(W, vision) ==
    IF vision.st = "raise" THEN NoQuery(W, FALSE, NoResult)
    ELSE ImageMatches(query_with_scores(W, vision.text, TopKImage))

search_by_image(W, vision) ==
    IF vision.st = "raise" THEN NoQuery(W, FALSE, NoResult)
    ELSE IF StrippedEmpty(vision) THEN NoQuery(W, FALSE, NoResult)
    ELSE ImageMatches(query_with_scores(W, vision.text, TopKImage))

\* f"Unknown function: {function_name}"
UnknownFunction(name) ==
    IF name = "delete_catalog" THEN "Unknown function: delete_catalog"
    ELSE "Unknown function: other"

\* ToolExecutor.execute: the declared arguments of recommend_products carry
\* no min_similarity, so the default of line 30 applies
execute(W, call, vision) ==
    IF call.name = "recommend_products"
      THEN recommend_products(W, call.text, call.budget, MinSimText)
    ELSE IF call.name = "search_by_image" THEN search_by_image(W, vision)
    ELSE NoQuery(W, FALSE, [error |-> UnknownFunction(call.name), items |-> <<>>])

\* --------------------------------------------------------------- agent.py
Returned(response, tool_calls) ==
    [status |-> "returned", response |-> response, tool_calls |-> tool_calls]
Raised == [status |-> "raised", response |-> "", tool_calls |-> <<>>]

\* the try/except of generate_response (lines 158-169) around an outcome
TryExceptMissing(o) == o

TryExcept(o) == IF o.status = "raised" THEN Returned("apology", <<>>) ELSE o

\* the tool message of lines 127-132 and the entry of lines 133-137
ToolMsgWrongId(call, result, pos) ==
    [role |-> "tool", kind |-> "tool", ref |-> pos, name |-> call.name, result |-> result]

ToolMsg(call, result, pos) ==
    [role |-> "tool", kind |-> "tool", ref |-> call.id, name |-> call.name, result |-> result]

\* one entry of the turn's record: a completion call or a tool execution
Event(call, raised) == [call |-> call, raised |-> raised]

ToolEntry(call, result) ==
    [function |-> call.name, arguments |-> [text |-> call.text, budget |-> call.budget],
     result |-> result]

\* ------------------------------------------------------------------ inputs
ToolText == [b |-> 0, v |-> 0]
ImageText == [b |-> 1, v |-> 0]
VisionOutcomes == {[st |-> "raise", text |-> ImageText],
                   [st |-> "empty", text |-> ImageText],
                   [st |-> "ok", text |-> ImageText]}
\* what the model may request: a name with arguments (ok: json.loads accepts
\* the arguments and they fit the handler's parameters)
CallKinds ==
    {[name |-> "recommend_products", ok |-> TRUE, text |-> ToolText, budget |-> NoBudget],
     [name |-> "recommend_products", ok |-> TRUE, text |-> ToolText, budget |-> 40],
     [name |-> "recommend_products", ok |-> FALSE, text |-> ToolText, budget |-> NoBudget],
     [name |-> "search_by_image", ok |-> TRUE, text |-> ToolText, budget |-> NoBudget],
     [name |-> "delete_catalog", ok |-> TRUE, text |-> ToolText, budget |-> NoBudget],
     [name |-> "delete_catalog", ok |-> FALSE, text |-> ToolText, budget |-> NoBudget]}
\* the identifiers are the provider's: here call i of n carries n + 1 - i
ToolCallSeqs ==
    UNION {{[i \in 1..n |-> ToolCall(n + 1 - i, f[i].name, f[i].ok, f[i].text, f[i].budget)] :
              f \in [1..n -> CallKinds]} : n \in 1..MaxTools}

\* --------------------------------------------------------------------- Init
InitTurn ==
    /\ products = {1, 2}
    /\ cache = EmptyCache
    /\ apiKey \in BOOLEAN
    /\ indexFile = AbsentFile
    /\ metaFile = AbsentFile
    /\ ret = NoRet
    /\ ConcIdle
    /\ EmbedIdle
    /\ TurnIdle

TurnNo == (Len(history) \div 2) + 1

\* POST /chat up to the intent call: the endpoint appends the user message to
\* the stored history (routes.py line 36) and generate_response builds the
\* prompt from it (agent.py line 160), inside the try block of lines 158-169.
ChatStart(completion) ==
    LET h == Append(history, Turn("user", TurnNo, FALSE))
    IN /\ tpc = "idle"
       /\ Len(history) < MaxHist
       /\ history' = h
       /\ msgs' = IF BuildRaises(h, completion) THEN <<>>
                  ELSE build_messages(h, TurnNo, completion)
       /\ trace' = IF Len(h) > max_history_turns /\ SummaryCalled(h)
                     THEN <<Event("summary", completion = "raise")>> ELSE <<>>
       /\ tpc' = IF BuildRaises(h, completion) THEN "done" ELSE "intent"
       /\ req' = <<>>
       /\ ti' = 0
       /\ results' = <<>>
       /\ out' = IF BuildRaises(h, completion) THEN TryExcept(Raised) ELSE NoOut
       /\ UNCHANGED <<storeVars, concVars, embedVars>>

\* _route_intent raises (line 161)
IntentRaises ==
    /\ tpc = "intent"
    /\ trace' = Append(trace, Event("intent", TRUE))
    /\ out' = TryExcept(Raised)
    /\ tpc' = "done"
    /\ UNCHANGED <<storeVars, concVars, embedVars, history, msgs, req, ti, results>>

\* the intent result requests no tool (lines 115-117)
IntentDirect ==
    /\ tpc = "intent"
    /\ trace' = Append(trace, Event("intent", FALSE))
    /\ out' = TryExcept(Returned("direct", <<>>))
    /\ tpc' = "done"
    /\ UNCHANGED <<storeVars, concVars, embedVars, history, msgs, req, ti, results>>

\* the intent result requests tools (lines 119-122)
IntentTools(calls) ==
    /\ tpc = "intent"
    /\ trace' = Append(trace, Event("intent", FALSE))
    /\ msgs' = Append(msgs, Msg("assistant", "tool_request", 0))
    /\ req' = calls
    /\ ti' = 1
    /\ results' = <<>>
    /\ tpc' = "tools"
    /\ UNCHANGED <<storeVars, concVars, embedVars, history, out>>

\* one round of the loop of lines 123-137; e is what execute answered
Executed(call, e) ==
    /\ cache' = e.cache
    /\ indexFile' = e.idx
    /\ metaFile' = e.meta
    /\ IF e.raised
         THEN /\ out' = TryExcept(Raised)
              /\ tpc' = "done"
              /\ trace' = Append(trace, Event("tool", TRUE))
              /\ UNCHANGED <<msgs, results, ti>>
       ELSE /\ msgs' = Append(msgs, ToolMsg(call, e.result, ti))
            /\ results' = Append(results, ToolEntry(call, e.result))
            /\ ti' = ti + 1
            /\ tpc' = IF ti + 1 > Len(req) THEN "synth" ELSE "tools"
            /\ trace' = Append(trace, Event("tool", FALSE))
            /\ UNCHANGED out

ExecTool(bad, vision) ==
    /\ tpc = "tools"
    /\ ti <= Len(req)
    /\ IF ~req[ti].ok
         THEN /\ out' = TryExcept(Raised)
              /\ tpc' = "done"
              /\ trace' = Append(trace, Event("tool", TRUE))
              /\ UNCHANGED <<cache, indexFile, metaFile, msgs, results, ti>>
       ELSE Executed(req[ti],
                     execute(World(products, cache, apiKey, bad, 0, indexFile, metaFile),
                             req[ti], vision))
    /\ UNCHANGED <<products, apiKey, ret, concVars, embedVars, history, req>>

\* lines 139-147: the instruction is appended and the synthesis call is made
Synthesis(ok) ==
    /\ tpc = "synth"
    /\ msgs' = Append(msgs, Msg("system", "synth_instruction", 0))
    /\ trace' = Append(trace, Event("synth", ~ok))
    /\ out' = TryExcept(IF ok THEN Returned("synth", results) ELSE Raised)
    /\ tpc' = "done"
    /\ UNCHANGED <<storeVars, concVars, embedVars, history, req, ti, results>>

\* routes.py lines 44-58: the answer is stored and returned; a raise of
\* generate_response would end the request with status 500 instead
ChatFinish ==
    /\ tpc = "done"
    /\ history' = IF out.status = "returned"
                    THEN Append(history, Turn("assistant", TurnNo - 1, FALSE))
                  ELSE history
    /\ tpc' = "idle"
    /\ msgs' = <<>>
    /\ req' = <<>>
    /\ ti' = 0
    /\ results' = <<>>
    /\ out' = NoOut
    /\ trace' = <<>>
    /\ UNCHANGED <<storeVars, concVars, embedVars>>

NextTurn ==
    \/ \E completion \in {"raise", "text", "empty"} : ChatStart(completion)
    \/ IntentRaises
    \/ IntentDirect
    \/ \E calls \in ToolCallSeqs : IntentTools(calls)
    \/ \E bad \in FailChoices, vision \in VisionOutcomes : ExecTool(bad, vision)
    \/ \E ok \in BOOLEAN : Synthesis(ok)
    \/ ChatFinish

SpecTurn == InitTurn /\ [][NextTurn]_vars

\* ================================================================ turn claims
\* how many calls of one kind the turn has made
Count(call) == Cardinality({i \in 1..Len(trace) : trace[i].call = call})

\* a call of this kind raised during the turn
Raising(call) == \E i \in 1..Len(trace) : trace[i].call = call /\ trace[i].raised

\* the places of the turn's record that hold a call of this kind
Places(call) == {i \in 1..Len(trace) : trace[i].call = call}

UnknownName(name) == name \notin {"recommend_products", "search_by_image"}

\* C1: generate_response never raises to its caller: when the intent call or
\* the synthesis call raises, the turn returns the fixed apology with an empty
\* tool_calls list, also when tools had already been executed.
C1_NeverRaises ==
    /\ out.status # "raised"
    /\ (tpc = "done" /\ (Raising("intent") \/ Raising("synth")))
          => out = Returned("apology", <<>>)

\* the synthesis call raised after two tools had run, one of them with hits
C1_Witness ==
    /\ tpc = "done"
    /\ Raising("synth")
    /\ Len(results) = 2
    /\ \E i \in 1..Len(results) : results[i].result.items # <<>>
    /\ out = Returned("apology", <<>>)

\* C2: a turn is intent, then the tools, then synthesis, each completion call
\* made at most once; without tool requests the intent content is returned
\* with no tool_calls, no tool run and no synthesis call; with tool requests
\* every requested tool is executed, exactly one synthesis call follows the
\* last tool, and its output is the response.
C2_PhaseOrder ==
    tpc = "done" =>
        /\ Count("intent") = 1
        /\ Count("synth") <= 1
        /\ \A i \in Places("intent"), j \in Places("tool") : i < j
        /\ \A j \in Places("tool"), k \in Places("synth") : j < k
        /\ (req = <<>> /\ ~Raising("intent")) =>
              /\ out = Returned("direct", <<>>)
              /\ Count("tool") = 0
              /\ Count("synth") = 0
        /\ req # <<>> =>
              /\ Len(results) = Len(req)
              /\ Count("tool") = Len(req)
              /\ ~Raising("tool")
              /\ Count("synth") = 1
              /\ ~Raising("synth") => out.response = "synth"

\* C3: a tool name that is neither recommend_products nor search_by_image is
\* answered with the error result "Unknown function: <name>" without raising
\* and without running a handler (no embedding, no index access), and the turn
\* goes on through the remaining tool calls to the synthesis call and returns
\* the synthesized answer with that error result listed in tool_calls.
C3_UnknownToolProceeds ==
    /\ [][ ( /\ tpc = "tools"
             /\ tpc' # "idle"
             /\ UnknownName(req[ti].name)
             /\ req[ti].ok )
           => ( /\ UNCHANGED <<products, cache, indexFile, metaFile>>
                /\ Len(results') = Len(results) + 1
                /\ results'[ti].function = req[ti].name
                /\ results'[ti].result =
                      [error |-> "Unknown function: delete_catalog", items |-> <<>>]
                /\ tpc' \in {"tools", "synth"} ) ]_vars
    /\ [](tpc = "done" =>
            \A i \in 1..Len(results) :
                UnknownName(req[i].name) =>
                    /\ Count("synth") = 1
                    /\ ~Raising("synth") =>
                          /\ out.response = "synth"
                          /\ Len(out.tool_calls) >= i
                          /\ out.tool_calls[i].result =
                                [error |-> "Unknown function: delete_catalog", items |-> <<>>])

\* C4: in a turn with n requested tool calls the messages sent to the
\* synthesis call hold, after the assistant's tool-request message, exactly n
\* tool messages in request order, the i-th tagged with the i-th call's
\* identifier and name, followed by the synthesis instruction; the tool_calls
\* list returned with the synthesized answer has the same n entries in the
\* same order.
C4_ToolMessagesInOrder ==
    (tpc = "done" /\ Count("synth") = 1) =>
        /\ Len(msgs) >= Len(req) + 2
        /\ msgs[Len(msgs) - Len(req) - 1].kind = "tool_request"
        /\ \A i \in 1..(Len(msgs) - Len(req) - 2) :
              msgs[i].kind \notin {"tool_request", "tool", "synth_instruction"}
        /\ \A i \in 1..Len(req) :
              /\ msgs[Len(msgs) - Len(req) - 1 + i].role = "tool"
              /\ msgs[Len(msgs) - Len(req) - 1 + i].ref = req[i].id
              /\ msgs[Len(msgs) - Len(req) - 1 + i].name = req[i].name
        /\ msgs[Len(msgs)].kind = "synth_instruction"
        /\ Len(results) = Len(req)
        /\ \A i \in 1..Len(req) :
              /\ results[i].function = req[i].name
              /\ results[i].arguments = [text |-> req[i].text, budget |-> req[i].budget]
              /\ results[i].result = msgs[Len(msgs) - Len(req) - 1 + i].result
        /\ ~Raising("synth") => out = Returned("synth", results)

\* two different tools were requested, ran and were reported, the second
\* call's identifier not being its position
C4_Witness ==
    /\ tpc = "done"
    /\ out.status = "returned"
    /\ out.response = "synth"
    /\ Len(req) = 2
    /\ req[1].name # req[2].name
    /\ req[1].id # 1
    /\ Len(out.tool_calls) = 2
    /\ out.tool_calls[1].result # out.tool_calls[2].result

\* ===================================================== spellings of one text
\* Requests whose texts differ only in case or surrounding blanks: variant 0
\* is the normalized spelling, variant 1 another spelling of the same key.
VariantTexts == {[b |-> k, v |-> x] : k \in Keys, x \in {0, 1}}
\* the embedding source answers every text, or fails on every text
VariantFail == {{}, VariantTexts}

NextCache ==
    \/ \E bad \in VariantFail : RebuildIndex(bad)
    \/ CreateProduct
    \/ \E text \in VariantTexts, bad \in VariantFail : Recommend(text, bad)
    \/ \E text \in VariantTexts, k \in {TopKTool, TopKImage}, bad \in VariantFail :
          QueryWithScores(text, k, bad)
    \/ Return
    \/ Restart

SpecCache == Init /\ [][NextCache]_vars

\* what a process that has embedded nothing yet finds, the embedding source up
FreshWorld == World(products, EmptyCache, TRUE, {}, 0, indexFile, metaFile)

\* the hits of the same query in such a process
FreshHits(op, text, top_k) ==
    IF op = "query" THEN query(FreshWorld, text, top_k).hits
    ELSE query_with_scores(FreshWorld, text, top_k).hits

\* C11: query determinism: a query that loads the snapshot returns the same
\* ordered (product, score) sequence as any other query with the same text
\* and top_k on that snapshot and product store, whatever ran before it and
\* whether its embedding came from the cache or from the embedding source:
\* its hits are those of the same query in a process with an empty cache.
C11_QueryDeterminism ==
    [][ (IsQuery(ret') /\ ret'.raised = "none" /\ ~ret'.built)
          => ret'.hits = FreshHits(ret'.op, ret'.text, ret'.k) ]_vars

\* ========================================================= the tools alone
\* recommend_products and search_by_image called directly, with every
\* argument the signature allows (min_similarity included).
Budgets == {NoBudget, 0, 40, 60}
MinSimilarities == {MinSimImage, MinSimText, 7, 11}
VisionAll == {[st |-> x, text |-> ImageText] :
                 x \in {"raise", "null", "empty", "blank", "ok"}}
ToolFail == {{}, AllTexts}

\* a tool has answered t
ToolAnswered(op, text, budget, min_similarity, vision, bad, t) ==
    /\ cache' = t.cache
    /\ indexFile' = t.idx
    /\ metaFile' = t.meta
    /\ ret' = [NoRet EXCEPT !.op = op, !.text = text, !.bad = bad,
                           !.budget = budget, !.min = min_similarity,
                           !.vision = vision.st,
                           !.raised = IF t.raised THEN "tool" ELSE "none",
                           !.hits = t.hits, !.items = t.result.items,
                           !.queried = t.queried]
    /\ UNCHANGED <<products, apiKey, concVars, embedVars, turnVars>>

ToolRecommend(text, budget, min_similarity, bad) ==
    /\ ret = NoRet
    /\ ToolAnswered("recommend_products", text, budget, min_similarity,
                    [st |-> "ok", text |-> text], bad,
                    recommend_products(Here(bad), text, budget, min_similarity))

ToolSearchByImage(vision, bad) ==
    /\ ret = NoRet
    /\ ToolAnswered("search_by_image", vision.text, NoBudget, MinSimImage, vision, bad,
                    search_by_image(Here(bad), vision))

NextTool ==
    \/ \E text \in QueryTexts, budget \in Budgets, m \in MinSimilarities,
          bad \in ToolFail : ToolRecommend(text, budget, m, bad)
    \/ \E vision \in VisionAll, bad \in ToolFail : ToolSearchByImage(vision, bad)
    \/ CreateProduct
    \/ DeleteFile
    \/ Return

SpecTool == Init /\ [][NextTool]_vars

\* --------------------------------------------------------------- tool claims
RecDone(r) == r.op = "recommend_products" /\ r.raised = "none"

\* the hits at or above a threshold, in the order of hits
RECURSIVE AtOrAbove(_, _)
AtOrAbove(hits, m) ==
    IF hits = <<>> THEN <<>>
    ELSE (IF Head(hits).score >= m THEN <<Head(hits)>> ELSE <<>>)
         \o AtOrAbove(Tail(hits), m)

\* a is b with some elements left out, the others in their order
RECURSIVE IsSubseq(_, _)
IsSubseq(a, b) ==
    IF a = <<>> THEN TRUE
    ELSE IF b = <<>> THEN FALSE
    ELSE IF Head(a) = Head(b) THEN IsSubseq(Tail(a), Tail(b))
    ELSE IsSubseq(a, Tail(b))

\* C12: recommend_products keeps a hit if and only if its score is at least
\* min_similarity (a score equal to the threshold is kept), so a threshold
\* above every score (1.1) always gives the empty sequence.
C12_ThresholdInclusive ==
    RecDone(ret) =>
        /\ \A j \in 1..Len(ret.items) : ret.items[j].score >= ret.min
        /\ ret.budget = NoBudget =>
              /\ IsSubseq(ret.items, ret.hits)
              /\ Len(ret.items) =
                    Cardinality({i \in 1..Len(ret.hits) : ret.hits[i].score >= ret.min})
        /\ ret.min = 11 => ret.items = <<>>

\* a hit scoring exactly the threshold was kept, one below it was dropped
C12_Witness ==
    /\ RecDone(ret)
    /\ ret.budget = NoBudget
    /\ \E j \in 1..Len(ret.items) : ret.items[j].score = ret.min
    /\ \E i \in 1..Len(ret.hits) : ret.hits[i].score < ret.min

\* C13: with a budget every returned hit has a price, and it is within the
\* budget; without a budget no hit is dropped because of its price.
C13_BudgetLaw ==
    RecDone(ret) =>
        /\ ret.budget # NoBudget =>
              \A j \in 1..Len(ret.items) :
                  /\ Price(ret.items[j].id) # NoPrice
                  /\ Price(ret.items[j].id) <= ret.budget
        /\ ret.budget = NoBudget => ret.items = AtOrAbove(ret.hits, ret.min)

\* two hits above the threshold, one of them without a price: only the priced
\* one within the budget came back
C13_Witness ==
    /\ RecDone(ret)
    /\ ret.budget = 60
    /\ Len(ret.hits) = 2
    /\ \E i \in 1..Len(ret.hits) :
          Price(ret.hits[i].id) = NoPrice /\ ret.hits[i].score >= ret.min
    /\ Len(ret.items) = 1

\* C14: the result of recommend_products and of search_by_image is the hits
\* of the vector query with some left out, never reordered: it stays in
\* similarity-descending order.
C14_OrderPreserved ==
    (ret.op \in {"recommend_products", "search_by_image"} /\ ret.raised = "none") =>
        /\ IsSubseq(ret.items, ret.hits)
        /\ \A j \in 1..(Len(ret.items) - 1) :
              ret.items[j].score >= ret.items[j + 1].score

\* search_by_image returned three hits of two different scores
C14_Witness ==
    /\ ret.op = "search_by_image"
    /\ Len(ret.items) = 3
    /\ ret.items[1].score > ret.items[3].score

\* C15: when the vision completion returns a null, empty or blank phrase,
\* search_by_image returns the empty sequence and queries neither the
\* embedding source nor the index: no load, no lazy build, no search.
C15_EmptyPhraseNoQuery ==
    [][ (ret'.op = "search_by_image" /\ ret'.vision \in {"null", "empty", "blank"})
          => ( /\ ret'.items = <<>>
               /\ ~ret'.queried
               /\ UNCHANGED <<cache, indexFile, metaFile>> ) ]_vars

\* a blank phrase while no snapshot exists and products could be embedded
C15_Witness ==
    /\ ret.op = "search_by_image"
    /\ ret.vision = "blank"
    /\ indexFile.st = "absent"
    /\ products # {}
    /\ apiKey
    /\ ret.bad = {}

\* ===================================================== the context manager
\* build_messages, summarize_history and summarize_for_memory applied to the
\* histories a caller can pass: turns of any role, with or without the
\* "Conversation summary:" marker at the start of their content. Turn i of a
\* history has identity i.
TurnKinds == {[role |-> "user", summary |-> FALSE],
              [role |-> "user", summary |-> TRUE],
              [role |-> "assistant", summary |-> FALSE],
              [role |-> "system", summary |-> FALSE],
              [role |-> "system", summary |-> TRUE]}
Histories ==
    UNION {{[i \in 1..n |-> Turn(f[i].role, i, f[i].summary)] : f \in [1..n -> TurnKinds]} :
             n \in 0..MaxHist}
Completions == {"raise", "empty", "text"}

InitContext ==
    /\ products = {1, 2}
    /\ cache = EmptyCache
    /\ apiKey = TRUE
    /\ indexFile = AbsentFile
    /\ metaFile = AbsentFile
    /\ ret = NoRet
    /\ ConcIdle
    /\ EmbedIdle
    /\ history \in Histories
    /\ tpc = "idle"
    /\ msgs = <<>>
    /\ req = <<>>
    /\ ti = 0
    /\ results = <<>>
    /\ out = NoOut
    /\ trace = <<>>

SummaryEvents(hist, completion) ==
    IF SummaryCalled(hist) THEN <<Event("summary", completion = "raise")>> ELSE <<>>

BuildMessages(completion) ==
    /\ ret = NoRet
    /\ msgs' = build_messages(history, Len(history) + 1, completion)
    /\ trace' = IF Len(history) > max_history_turns
                  THEN SummaryEvents(history, completion) ELSE <<>>
    /\ ret' = [NoRet EXCEPT !.op = "build_messages", !.completion = completion]
    /\ UNCHANGED <<products, cache, apiKey, indexFile, metaFile, concVars, embedVars,
                   history, tpc, req, ti, results, out>>

SummarizeHistory(completion) ==
    /\ ret = NoRet
    /\ trace' = SummaryEvents(history, completion)
    /\ ret' = [NoRet EXCEPT !.op = "summarize_history", !.completion = completion,
                            !.val = summarize_history(history, completion),
                            !.calls = Len(SummaryEvents(history, completion))]
    /\ UNCHANGED <<products, cache, apiKey, indexFile, metaFile, concVars, embedVars,
                   history, tpc, msgs, req, ti, results, out>>

SummarizeForMemory(completion) ==
    /\ ret = NoRet
    /\ trace' = SummaryEvents(history, completion)
    /\ ret' = [NoRet EXCEPT !.op = "summarize_for_memory", !.completion = completion,
                            !.inner = summarize_history(history, completion),
                            !.val = summarize_for_memory(history, completion),
                            !.calls = Len(SummaryEvents(history, completion))]
    /\ UNCHANGED <<products, cache, apiKey, indexFile, metaFile, concVars, embedVars,
                   history, tpc, msgs, req, ti, results, out>>

\* the call is over; its result and its record are dropped
ContextReturn ==
    /\ ret # NoRet
    /\ ret' = NoRet
    /\ msgs' = <<>>
    /\ trace' = <<>>
    /\ UNCHANGED <<products, cache, apiKey, indexFile, metaFile, concVars, embedVars,
                   history, tpc, req, ti, results, out>>

NextContext ==
    \/ \E completion \in Completions : BuildMessages(completion)
    \/ \E completion \in Completions : SummarizeHistory(completion)
    \/ \E completion \in Completions : SummarizeForMemory(completion)
    \/ ContextReturn

SpecContext == InitContext /\ [][NextContext]_vars

\* ------------------------------------------------------------------ claims
StoredSummaries == {i \in 1..Len(history) : history[i].role = "system" /\ history[i].summary}
Newest(S) == CHOOSE x \in S : \A y \in S : y <= x
Carried == IF StoredSummaries = {} THEN 0 ELSE 1
Fresh == IF Len(history) > max_history_turns /\ ret.completion = "text" THEN 1 ELSE 0
Recent == Min(Len(history), keep_recent_turns)

\* C16: build_messages returns, in this order: the persona; the newest stored
\* summary of the history if there is one, and no older one; a fresh summary
\* if and only if the history is longer than max_history_turns and the
\* summarization returned text; the last keep_recent_turns turns of the
\* history as they are; the new user message last.
C16_PromptAssembly ==
    ret.op = "build_messages" =>
        /\ Len(msgs) = 1 + Carried + Fresh + Recent + 1
        /\ msgs[1] = Msg("system", "persona", 0)
        /\ Carried = 1 => msgs[2] = Msg("system", "summary", Newest(StoredSummaries))
        /\ Fresh = 1 => msgs[2 + Carried] = Msg("system", "fresh_summary", 0)
        /\ \A j \in 1..Recent :
              msgs[1 + Carried + Fresh + j] =
                 Msg(history[Len(history) - Recent + j].role, "turn",
                     Len(history) - Recent + j)
        /\ msgs[Len(msgs)] = Msg("user", "new_user", Len(history) + 1)

\* a long history with two stored summaries outside the recent turns, and the
\* summarization returned text
C16_Witness ==
    /\ ret.op = "build_messages"
    /\ Len(history) > max_history_turns
    /\ ret.completion = "text"
    /\ Cardinality(StoredSummaries) = 2
    /\ \A i \in StoredSummaries : i <= Len(history) - keep_recent_turns
    /\ Len(msgs) = 6

\* the content of the message starts with "Conversation summary:"
Marked(m) ==
    \/ m.kind \in {"summary", "fresh_summary"}
    \/ m.kind = "turn" /\ history[m.ref].summary

\* C17: the prompt built for one request holds at most one message whose
\* content carries the conversation-summary marker.
C17_AtMostOneSummary ==
    ret.op = "build_messages" =>
        Cardinality({j \in 1..Len(msgs) : Marked(msgs[j])}) <= 1

\* C18: summarize_history returns absent without a completion call when the
\* history is empty or has at most keep_recent_turns turns; and
\* summarize_for_memory returns absent exactly when summarize_history returns
\* absent or the empty text.
C18_SummaryAbsent ==
    /\ (ret.op \in {"summarize_history", "summarize_for_memory"}
          /\ Len(history) <= keep_recent_turns)
          => (ret.val = "none" /\ ret.calls = 0 /\ trace = <<>>)
    /\ ret.op = "summarize_for_memory"
          => (ret.val = "none" <=> ret.inner \in {"none", "empty"})

\* a history of exactly keep_recent_turns turns, the completion would have
\* returned text
C18_Witness ==
    /\ ret.op = "summarize_history"
    /\ Len(history) = keep_recent_turns
    /\ ret.completion = "text"
    /\ ret.val = "none"

\* C19: a failure of the summarization call never fails the turn:
\* summarize_history returns absent, the prompt is built without a fresh
\* summary, generate_response goes on to the intent call and the turn ends
\* with its normal answer, not the apology, unless a later call raises.
C19_SummaryFailureTolerated ==
    Raising("summary") =>
        /\ out.status # "raised"
        /\ msgs # <<>>
        /\ \A j \in 1..Len(msgs) : msgs[j].kind # "fresh_summary"
        /\ tpc = "intent" \/ Count("intent") = 1
        /\ (tpc = "done" /\ ~Raising("intent") /\ ~Raising("tool") /\ ~Raising("synth"))
              => /\ out.status = "returned"
                 /\ out.response = (IF req = <<>> THEN "direct" ELSE "synth")

\* the summarization call raised and the turn ended with the synthesized
\* answer after a tool had run
C19_Witness ==
    /\ Raising("summary")
    /\ tpc = "done"
    /\ Len(results) >= 1
    /\ out.response = "synth"

\* ======================================================= single embed calls
\* _get_embedding called on its own, with any spelling of a text, in one
\* process; fetched counts, per cache key, the calls to the embedding source
\* that succeeded since the process started.
InitEmbed ==
    /\ products = {1, 2}
    /\ cache = EmptyCache
    /\ apiKey \in BOOLEAN
    /\ indexFile = AbsentFile
    /\ metaFile = AbsentFile
    /\ ret = NoRet
    /\ ConcIdle
    /\ EmbedIdle
    /\ TurnIdle

Embedded(text, bad, e) ==
    /\ cache' = e.cache
    /\ fetched' = [fetched EXCEPT ![Key(text)] =
                      IF e.calls = 1 /\ e.raised = "none" THEN @ + 1 ELSE @]
    /\ ret' = [NoRet EXCEPT !.op = "_get_embedding", !.text = text, !.bad = bad,
                            !.raised = e.raised, !.vec = e.vec, !.calls = e.calls]
    /\ UNCHANGED <<products, apiKey, indexFile, metaFile, concVars, turnVars>>

Embed(text, bad) ==
    /\ ret = NoRet
    /\ fetched[Key(text)] < MaxFetch
    /\ Embedded(text, bad, _get_embedding(text, cache, apiKey, bad))

\* the process starts again: the module-level cache is empty (line 18)
EmbedRestart ==
    /\ ret = NoRet
    /\ cache' = EmptyCache
    /\ apiKey' \in BOOLEAN
    /\ fetched' = [k \in Keys |-> 0]
    /\ UNCHANGED <<products, indexFile, metaFile, ret, concVars, turnVars>>

EmbedReturn ==
    /\ ret # NoRet
    /\ ret' = NoRet
    /\ UNCHANGED <<products, cache, apiKey, indexFile, metaFile, concVars,
                   embedVars, turnVars>>

NextEmbed ==
    \/ \E text \in VariantTexts, bad \in VariantFail : Embed(text, bad)
    \/ EmbedRestart
    \/ EmbedReturn

SpecEmbed == InitEmbed /\ [][NextEmbed]_vars

\* C20: the cache key is the text trimmed and lower-cased; a call whose key
\* is cached returns the stored vector, whatever the spelling, without a call
\* to the embedding source, so the source is called successfully at most once
\* per key.
C20_CacheHitNoCall ==
    /\ [][ (ret'.op = "_get_embedding" /\ cache[Key(ret'.text)] # NoVec)
             => ( /\ ret'.raised = "none"
                  /\ ret'.vec = cache[Key(ret'.text)]
                  /\ ret'.calls = 0
                  /\ cache' = cache ) ]_vars
    /\ [](\A k \in Keys : fetched[k] <= 1)

\* a spelling that was never sent to the source got the vector stored for the
\* other spelling of its key, while the source was failing
C20_Witness ==
    /\ ret.op = "_get_embedding"
    /\ ret.text.v = 1
    /\ ret.bad = VariantTexts
    /\ ret.raised = "none"
    /\ ret.calls = 0
    /\ ret.vec = ProviderVec([b |-> ret.text.b, v |-> 0])
    /\ fetched[ret.text.b] = 1

\* C21: for every input text, _get_embedding fails with the configuration
\* error and returns no vector whenever no API key is configured at the time
\* of the call; it calls no source and stores nothing.
C21_NoKeyConfigError ==
    [][ (ret'.op = "_get_embedding" /\ ~apiKey)
          => ( /\ ret'.raised = "config"
               /\ ret'.vec = NoVec
               /\ ret'.calls = 0
               /\ cache' = cache ) ]_vars

\* a call with a non-normalized spelling while no API key is configured and
\* the source itself would have answered
C21_Witness ==
    /\ ret.op = "_get_embedding"
    /\ ~apiKey
    /\ ret.raised = "config"
    /\ ret.text.v = 1
    /\ ret.bad = {}

\* C22: when the embedding source is not configured and a chat turn runs
\* recommend_products, the configuration failure is surfaced to the caller of
\* the turn as an error outcome, not as a normal response.
C22_ConfigFailureSurfaced ==
    (tpc = "done" /\ ~apiKey /\ Raising("tool")
       /\ req[ti].name = "recommend_products" /\ req[ti].ok)
        => out.status = "raised"

\* C23: an exception raised while a tool executes (a retrieval or embedding
\* failure inside the tool, or malformed arguments) is turned into an empty
\* or neutral result at the tool-execution boundary: every turn with tool
\* requests runs all of them and then the synthesis call.
C23_ToolFailureContained ==
    (tpc = "done" /\ req # <<>>) =>
        /\ ~Raising("tool")
        /\ Len(results) = Len(req)
        /\ Count("tool") = Len(req)
        /\ Count("synth") = 1

\* the products build_index would get a vector for, in store order
EmbeddableIds(S, c, key, bad) ==
    SelectSeq(ListAll(S), LAMBDA p : Embeddable(ProdText(p), c, key, bad))

\* C24: build_index skips a product whose embedding could not be computed
\* and succeeds with the others, ids listing the embedded products in store
\* order; it fails with the empty-corpus error only when no product yields a
\* vector.
C24_SkipFailedProducts ==
    [][ ret'.op = "rebuild" =>
          /\ EmbeddableIds(products, cache, apiKey, ret'.bad) # <<>> =>
                /\ ret'.raised = "none"
                /\ ret'.pair.ids = EmbeddableIds(products, cache, apiKey, ret'.bad)
          /\ ret'.raised = "empty_corpus" =>
                EmbeddableIds(products, cache, apiKey, ret'.bad) = <<>> ]_vars

\* C25: a successful build_index replaces the persisted snapshot by one whose
\* ids are the ids it returns, and only a build changes the persisted ids:
\* a query that finds a loadable snapshot with ids leaves both files as they
\* are, and so does every other operation that builds nothing.
C25_OnlyBuildWrites ==
    [][ /\ (ret'.built /\ ret'.pair.index.st = "ok") =>
              /\ indexFile' = ret'.pair.index
              /\ metaFile'.st = "ok"
              /\ metaFile'.ids = ret'.pair.ids
              /\ Len(indexFile'.vecs) = Len(metaFile'.ids)
        /\ (IsQuery(ret') /\ ~NotLoadable(LoadNow)) =>
              (~ret'.built /\ UNCHANGED <<indexFile, metaFile>>)
        /\ (ret' # ret /\ ~ret'.built) => UNCHANGED <<indexFile, metaFile>> ]_vars

\* a rebuild replaced the snapshot by one listing three products
C25_Witness ==
    /\ ret.op = "rebuild"
    /\ ret.raised = "none"
    /\ ret.pair.ids = <<1, 2, 3>>
    /\ metaFile.ids = <<1, 2, 3>>
    /\ indexFile = ret.pair.index

\* the ids at the labels of the search, in search order, padding left out
Labelled(r) ==
    LET v == SelectSeq(r.I, LAMBDA i : i >= 0 /\ i < Len(r.pair.ids))
    IN [j \in 1..Len(v) |-> r.pair.ids[v[j] + 1]]

\* C26: on a snapshot that is stale with respect to the product store, query
\* and query_with_scores skip the positions whose id is no longer stored and
\* do not raise: every hit is a stored product and the other hits keep their
\* relative order.
C26_StaleSkipped ==
    [][ (IsQuery(ret') /\ ~NotLoadable(LoadNow)
           /\ Embeddable(ret'.text, cache, apiKey, ret'.bad)) =>
          /\ ret'.raised = "none"
          /\ \A j \in 1..Len(ret'.hits) : ret'.hits[j].id \in products
          /\ [j \in 1..Len(ret'.hits) |-> ret'.hits[j].id] =
                SelectSeq(Labelled(ret'), LAMBDA p : p \in products) ]_vars

\* the best-scoring position of the snapshot holds a product that is no
\* longer stored; the query answered the one behind it
C26_Witness ==
    /\ ret.op = "query"
    /\ ret.raised = "none"
    /\ ~ret.built
    /\ Len(ret.I) >= 2
    /\ ret.I[1] >= 0
    /\ ret.pair.ids[ret.I[1] + 1] \notin products
    /\ Len(ret.hits) = 1

\* the places of the prompt that hold the content of the request's message
NewMessagePlaces ==
    {j \in 1..Len(msgs) : /\ msgs[j].role = "user"
                          /\ msgs[j].kind \in {"turn", "new_user"}
                          /\ msgs[j].ref = history[Len(history)].n}

\* C27: the prompt sent to the intent call of a /chat request holds the
\* request's new user message exactly once, as its last element.
C27_NewMessageOnce ==
    tpc = "intent" =>
        /\ msgs[Len(msgs)] = Msg("user", "new_user", history[Len(history)].n)
        /\ Cardinality(NewMessagePlaces) = 1

\* C28: no turn of the history is dropped from the prompt silently: when the
\* summarization call succeeds, every turn is one of the verbatim recent
\* turns or was in the input of a summary generated for the prompt.
C28_NoTurnDropped ==
    (ret.op = "build_messages" /\ ret.completion = "text") =>
        \A i \in 1..Len(history) :
            \/ \E j \in 1..Len(msgs) : msgs[j].kind = "turn" /\ msgs[j].ref = i
            \/ /\ \E j \in 1..Len(msgs) : msgs[j].kind = "fresh_summary"
               /\ \E k \in 1..Len(SummaryInput(history)) : SummaryInput(history)[k].n = i

\* ================================================== the two turn pipelines
\* generate_response of agent.py (with ContextManager and ToolExecutor) and
\* generate_response of agent_service.py, each as one call on the same
\* history, store and collaborator behaviour. A run is what a pipeline has
\* done so far: W the store, msgs the message list, results the tool
\* results, trace its completion and tool calls, raised an exception under way.
Run(W, m, r, t, raised) ==
    [W |-> W, msgs |-> m, results |-> r, trace |-> t, raised |-> raised]
After(W, e) == [W EXCEPT !.cache = e.cache, !.idx = e.idx, !.meta = e.meta]
Done(W, m, t, o) == [W |-> W, msgs |-> m, trace |-> t, out |-> o]

\* ----------------------------------------------------------------- agent.py
\* _finalize_with_tools lines 123-137
RECURSIVE tool_loop(_, _, _, _)
tool_step(st, calls, i, vision, e) ==
    IF e.raised
      THEN Run(After(st.W, e), st.msgs, st.results,
               Append(st.trace, Event("tool", TRUE)), TRUE)
    ELSE tool_loop(Run(After(st.W, e),
                       Append(st.msgs, ToolMsg(calls[i], e.result, i)),
                       Append(st.results, ToolEntry(calls[i], e.result)),
                       Append(st.trace, Event("tool", FALSE)), FALSE),
                   calls, i + 1, vision)

tool_loop(st, calls, i, vision) ==
    IF i > Len(calls) THEN st
    ELSE IF ~calls[i].ok
      THEN Run(st.W, st.msgs, st.results, Append(st.trace, Event("tool", TRUE)), TRUE)
    ELSE tool_step(st, calls, i, vision, execute(st.W, calls[i], vision))

\* lines 139-147 after the loop ended as st
Synthesized(st, ok) ==
    IF st.raised THEN Done(st.W, st.msgs, st.trace, Raised)
    ELSE Done(st.W, Append(st.msgs, Msg("system", "synth_instruction", 0)),
              Append(st.trace, Event("synth", ~ok)),
              IF ok THEN Returned("synth", st.results) ELSE Raised)

_finalize_with_tools(W, m, t, calls, vision, ok) ==
    IF calls = <<>> THEN Done(W, m, t, Returned("direct", <<>>))
    ELSE Synthesized(tool_loop(Run(W, Append(m, Msg("assistant", "tool_request", 0)),
                                   <<>>, t, FALSE),
                               calls, 1, vision),
                     ok)

\* lines 161-162 on the prompt m
Routed(W, m, t, c) ==
    IF c.intent = "raise" THEN Done(W, m, Append(t, Event("intent", TRUE)), Raised)
    ELSE _finalize_with_tools(W, m, Append(t, Event("intent", FALSE)),
                              c.calls, c.vision, c.synth)

Caught(d) == [d EXCEPT !.out = TryExcept(@)]

\* c is what the collaborators do during the call
generate_response(W, hist, user_n, c) ==
    Caught(IF BuildRaises(hist, c.completion)
             THEN Done(W, <<>>, <<Event("summary", TRUE)>>, Raised)
           ELSE Routed(W, build_messages(hist, user_n, c.completion),
                       IF Len(hist) > max_history_turns /\ SummaryCalled(hist)
                         THEN <<Event("summary", c.completion = "raise")>> ELSE <<>>,
                       c))

\* --------------------------------------------------------- agent_service.py
\* lines 80-117
_summarize_history(hist, completion) ==
    IF hist = <<>> \/ Len(hist) <= keep_recent_turns THEN "none"
    ELSE IF SubSeq(hist, 1, Len(hist) - keep_recent_turns) = <<>> THEN "none"
    ELSE IF completion = "raise" THEN "none"
    ELSE completion

\* the completion call of line 108 is reached
MonoSummaryCalled(hist) ==
    /\ ~(hist = <<>> \/ Len(hist) <= keep_recent_turns)
    /\ SubSeq(hist, 1, Len(hist) - keep_recent_turns) # <<>>

\* lines 142-146
RECURSIVE MonoStoredSummary(_, _)
MonoStoredSummary(hist, i) ==
    IF i = 0 THEN <<>>
    ELSE IF hist[i].role = "system" /\ hist[i].summary
      THEN <<Msg("system", "summary", hist[i].n)>>
    ELSE MonoStoredSummary(hist, i - 1)

\* lines 158-164
MonoRecent(hist) ==
    IF hist = <<>> THEN <<>>
    ELSE [j \in 1..Min(Len(hist), keep_recent_turns) |->
            Msg(hist[Len(hist) - Min(Len(hist), keep_recent_turns) + j].role, "turn",
                hist[Len(hist) - Min(Len(hist), keep_recent_turns) + j].n)]

\* lines 140-170
MonoPrompt(hist, user_n, completion) ==
    <<Msg("system", "persona", 0)>>
    \o MonoStoredSummary(hist, Len(hist))
    \o (IF Len(hist) > max_history_turns /\ _summarize_history(hist, completion) = "text"
          THEN <<Msg("system", "fresh_summary", 0)>> ELSE <<>>)
    \o MonoRecent(hist)
    \o <<Msg("user", "new_user", user_n)>>

\* lines 272-274 and 332-334
MonoKept(hits, min_similarity) ==
    SelectSeq(hits, LAMBDA h : ~(h.score < min_similarity))

\* line 285
MonoAffordable(recs, budget) ==
    SelectSeq(recs, LAMBDA r : Price(r.id) # NoPrice /\ Price(r.id) <= budget)

\* lines 262-288: try/finally, no except
MonoRecommended(r, budget, min_similarity) ==
    IF r.raised # "none" THEN ToolOut(TRUE, NoResult, r)
    ELSE ToolOut(FALSE,
                 [error |-> "",
                  items |-> IF budget # NoBudget
                              THEN MonoAffordable(MonoKept(r.hits, min_similarity), budget)
                            ELSE MonoKept(r.hits, min_similarity)],
                 r)

\* top_k=2 (line 270)
_recommend_products(W, user_preferences, budget, min_similarity) ==
    MonoRecommended(query_with_scores(W, user_preferences, 2), budget, min_similarity)

\* lines 290-353: every exception ends in the empty list; top_k = 5 and
\* min_similarity = 0.4 (lines 327-328)
MonoImageMatches(r) ==
    IF r.raised # "none" THEN ToolOut(FALSE, NoResult, r)
    ELSE ToolOut(FALSE, [error |-> "", items |-> MonoKept(r.hits, 4)], r)

\* _search_by_image without the except of lines 349-351
_search_by_image_no_except(W, vision) ==
    IF vision.st = "raise" THEN NoQuery(W, TRUE, NoResult)
    ELSE IF vision.st \in {"null", "empty", "blank"} THEN NoQuery(W, FALSE, NoResult)
    ELSE MonoImageMatches(query_with_scores(W, vision.text, 5))

_search_by_image(W, vision) ==
    IF vision.st = "raise" THEN NoQuery(W, FALSE, NoResult)
    ELSE IF vision.st \in {"null", "empty", "blank"} THEN NoQuery(W, FALSE, NoResult)
    ELSE MonoImageMatches(query_with_scores(W, vision.text, 5))

\* lines 250-259; min_similarity keeps its default 0.5 (line 262)
_execute_tool(W, call, vision) ==
    IF call.name = "recommend_products"
      THEN _recommend_products(W, call.text, call.budget, 5)
    ELSE IF call.name = "search_by_image" THEN _search_by_image(W, vision)
    ELSE NoQuery(W, FALSE, [error |-> UnknownFunction(call.name), items |-> <<>>])

\* lines 192-210
RECURSIVE MonoToolLoop(_, _, _, _)
MonoToolStep(st, calls, i, vision, e) ==
    IF e.raised
      THEN Run(After(st.W, e), st.msgs, st.results,
               Append(st.trace, Event("tool", TRUE)), TRUE)
    ELSE MonoToolLoop(Run(After(st.W, e),
                          Append(st.msgs,
                                 [role |-> "tool", kind |-> "tool", ref |-> calls[i].id,
                                  name |-> calls[i].name, result |-> e.result]),
                          Append(st.results,
                                 [function |-> calls[i].name,
                                  arguments |-> [text |-> calls[i].text,
                                                 budget |-> calls[i].budget],
                                  result |-> e.result]),
                          Append(st.trace, Event("tool", FALSE)), FALSE),
                      calls, i + 1, vision)

MonoToolLoop(st, calls, i, vision) ==
    IF i > Len(calls) THEN st
    ELSE IF ~calls[i].ok
      THEN Run(st.W, st.msgs, st.results, Append(st.trace, Event("tool", TRUE)), TRUE)
    ELSE MonoToolStep(st, calls, i, vision, _execute_tool(st.W, calls[i], vision))

\* lines 212-233 after the loop ended as st
MonoSynthesized(st, ok) ==
    IF st.raised THEN Done(st.W, st.msgs, st.trace, Raised)
    ELSE Done(st.W, Append(st.msgs, Msg("system", "synth_instruction", 0)),
              Append(st.trace, Event("synth", ~ok)),
              IF ok THEN Returned("synth", st.results) ELSE Raised)

\* lines 172-240 on the prompt m
MonoRouted(W, m, t, c) ==
    IF c.intent = "raise" THEN Done(W, m, Append(t, Event("intent", TRUE)), Raised)
    ELSE IF c.calls # <<>>
      THEN MonoSynthesized(
               MonoToolLoop(Run(W, Append(m, Msg("assistant", "tool_request", 0)),
                                <<>>, Append(t, Event("intent", FALSE)), FALSE),
                            c.calls, 1, c.vision),
               c.synth)
    ELSE Done(W, m, Append(t, Event("intent", FALSE)), Returned("direct", <<>>))

\* lines 242-247
MonoCaught(d) ==
    IF d.out.status = "raised"
      THEN [d EXCEPT !.out = Returned("apology", <<>>)]
    ELSE d

\* generate_response of agent_service.py (lines 127-247)
mono_generate_response(W, hist, user_n, c) ==
    MonoCaught(MonoRouted(W, MonoPrompt(hist, user_n, c.completion),
                          IF Len(hist) > max_history_turns /\ MonoSummaryCalled(hist)
                            THEN <<Event("summary", c.completion = "raise")>> ELSE <<>>,
                          c))

\* ------------------------------------------------------------------ inputs
PlainHistory(n) ==
    [i \in 1..n |-> Turn(IF i % 2 = 1 THEN "user" ELSE "assistant", i, FALSE)]
\* plain conversations of the lengths at which the prompt changes shape, and
\* two with a stored summary as first turn
EquivHistories ==
    {PlainHistory(n) : n \in {0, keep_recent_turns, max_history_turns, MaxHist}}
    \cup {[PlainHistory(n) EXCEPT ![1] = Turn("system", 1, TRUE)] : n \in {1, MaxHist}}
\* what the collaborators do during one call: the summarization call, the
\* intent call ("raise", or the tool calls it requests, none for a direct
\* answer), the vision call, the synthesis call
Collaborators ==
    {[completion |-> x, intent |-> "raise", calls |-> <<>>, vision |-> v, synth |-> TRUE] :
       x \in Completions, v \in {[st |-> "ok", text |-> ImageText]}}
    \cup {[completion |-> x, intent |-> "ok", calls |-> q, vision |-> v, synth |-> k] :
            x \in Completions, q \in {<<>>} \cup ToolCallSeqs, v \in VisionOutcomes,
            k \in BOOLEAN}

InitEquiv ==
    /\ products = {1, 2}
    /\ cache = EmptyCache
    /\ apiKey \in BOOLEAN
    /\ indexFile = AbsentFile
    /\ metaFile = AbsentFile
    /\ ret = NoRet
    /\ ConcIdle
    /\ EmbedIdle
    /\ history \in EquivHistories
    /\ tpc = "idle"
    /\ msgs = <<>>
    /\ req = <<>>
    /\ ti = 0
    /\ results = <<>>
    /\ out = NoOut
    /\ trace = <<>>

\* a is what agent.py's pipeline did, m what agent_service.py's did
BothAnswered(c, a, m) ==
    /\ msgs' = a.msgs
    /\ trace' = a.trace
    /\ out' = a.out
    /\ cache' = a.W.cache
    /\ indexFile' = a.W.idx
    /\ metaFile' = a.W.meta
    /\ req' = c.calls
    /\ ret' = [NoRet EXCEPT !.op = "generate_response", !.completion = c.completion,
                            !.msgs = m.msgs, !.trace = m.trace, !.out = m.out,
                            !.store = <<m.W.cache, m.W.idx, m.W.meta>>]
    /\ tpc' = "done"
    /\ UNCHANGED <<products, apiKey, concVars, embedVars, history, ti, results>>

GenerateResponse(c, bad) ==
    /\ tpc = "idle"
    /\ BothAnswered(c,
                    generate_response(Here(bad), history, Len(history) + 1, c),
                    mono_generate_response(Here(bad), history, Len(history) + 1, c))

NextEquiv == \E c \in Collaborators, bad \in ToolFail : GenerateResponse(c, bad)

SpecEquiv == InitEquiv /\ [][NextEquiv]_vars

Roles(m) == [j \in 1..Len(m) |-> m[j].role]

\* C29: for the same history, user message and collaborator behaviour the
\* two pipelines issue the same sequence of completion and tool calls, build
\* message lists with the same roles in the same order, and return the same
\* response and tool_calls.
C29_PipelinesEquivalent ==
    ret.op = "generate_response" =>
        /\ ret.trace = trace
        /\ Roles(ret.msgs) = Roles(msgs)
        /\ ret.out = out
        /\ ret.store = <<cache, indexFile, metaFile>>

\* both pipelines summarized a long history, ran two tools, one of them with
\* hits, and returned the synthesized answer
C29_Witness ==
    /\ ret.op = "generate_response"
    /\ Len(history) > max_history_turns
    /\ ret.completion = "text"
    /\ out.response = "synth"
    /\ Len(out.tool_calls) = 2
    /\ \E i \in 1..2 : out.tool_calls[i].result.items # <<>>
    /\ ret.out = out

(***************************************************************************)
(* The /chat endpoint under concurrent requests (api/chat.py 14-57,        *)
(* api/routes.py 21-58).  The handler is a coroutine of one event loop.    *)
(* Every call it awaits (generate_response, _route_intent, the tool        *)
(* executor) runs synchronous code only: the completion client is the      *)
(* blocking one, so no await inside the handler hands the loop to another  *)
(* request.  A request that has started therefore runs to its end before   *)
(* the next one starts; what interleaves is the arrival of requests.      *)
(* wpc[w] is the position of request task w, wloc[w].n the number of the   *)
(* user turn it stored and wloc[w].answer what generate_response gave it.  *)
(***************************************************************************)

\* agent_result["response"]: a text, the apology text, or None when the
\* completion's message.content is None (agent_service returns it as is)
ChatAnswers == {"text", "apology", "null"}

\* no request holds the event loop
LoopFree == \A w \in Workers : wpc[w] \notin {"appended", "answered"}

InitChat ==
    /\ products = {1, 2}
    /\ cache = EmptyCache
    /\ apiKey \in BOOLEAN
    /\ indexFile = AbsentFile
    /\ metaFile = AbsentFile
    /\ ret = NoRet
    /\ ConcIdle
    /\ EmbedIdle
    /\ TurnIdle

\* a client posts a message for the conversation; the task waits for the loop
ChatArrive(w) ==
    /\ wpc[w] = "idle"
    /\ Len(history) + 2 <= MaxHist
    /\ wpc' = [wpc EXCEPT ![w] = "queued"]
    /\ UNCHANGED <<storeVars, ret, gen, wloc, embedVars, turnVars>>

\* lines 21-32: the user message is appended to the stored history
ChatAppendUser(w) ==
    /\ wpc[w] = "queued"
    /\ LoopFree
    /\ Len(history) + 2 <= MaxHist
    /\ history' = Append(history, Turn("user", Len(history) + 1, FALSE))
    /\ wloc' = [wloc EXCEPT ![w] = [NoLoc EXCEPT !.op = "chat",
                                                 !.n = Len(history) + 1]]
    /\ wpc' = [wpc EXCEPT ![w] = "appended"]
    /\ UNCHANGED <<storeVars, ret, gen, embedVars, tpc, msgs, req, ti,
                   results, out, trace>>

\* lines 35-39: generate_response returns a dict; it raises nothing
ChatGenerate(w, answer) ==
    /\ wpc[w] = "appended"
    /\ wloc' = [wloc EXCEPT ![w].answer = answer]
    /\ wpc' = [wpc EXCEPT ![w] = "answered"]
    /\ UNCHANGED <<storeVars, ret, gen, embedVars, turnVars>>

\* lines 42-57: ChatMessage(role="assistant", content=...) requires a str;
\* for None the constructor raises, the handler answers 500 and the
\* append of line 47 is not reached
ChatAppendAssistant(w) ==
    /\ wpc[w] = "answered"
    /\ history' = IF wloc[w].answer = "null"
                    THEN history
                  ELSE Append(history, Turn("assistant", wloc[w].n, FALSE))
    /\ wloc' = [wloc EXCEPT ![w] = NoLoc]
    /\ wpc' = [wpc EXCEPT ![w] = "idle"]
    /\ UNCHANGED <<storeVars, ret, gen, embedVars, tpc, msgs, req, ti,
                   results, out, trace>>

NextChat ==
    \/ \E w \in Workers : ChatArrive(w)
    \/ \E w \in Workers : ChatAppendUser(w)
    \/ \E w \in Workers, answer \in ChatAnswers : ChatGenerate(w, answer)
    \/ \E w \in Workers : ChatAppendAssistant(w)

SpecChat == InitChat /\ [][NextChat]_vars

\* the stored history is user, assistant, user, assistant, ... and each
\* assistant turn answers the user turn just before it
Alternates(hist) ==
    \A i \in 1..Len(hist) :
        IF i % 2 = 1
          THEN hist[i].role = "user"
        ELSE /\ hist[i].role = "assistant"
             /\ hist[i].n = hist[i - 1].n

\* C30: on /chat, whatever the order in which requests of one conversation
\* arrive and run, the stored history only grows at its end, and once no
\* request is running every request has left one user turn directly
\* followed by the assistant turn answering it, so that the history
\* alternates user, assistant and has even length.
C30_HistoryAlternates ==
    /\ [][ /\ Len(history') >= Len(history)
           /\ SubSeq(history', 1, Len(history)) = history ]_vars
    /\ [](LoopFree => (Alternates(history) /\ Len(history) % 2 = 0))

====
